---- MODULE Spec2Model ----
(***************************************************************************)
(* Image-Presenter (Electron edition): the addon lifecycle manager, the    *)
(* multi-device fan-out and the peer registry, modelled from               *)
(* SourceCodeOLD-Electron/main.js and the admin client script.             *)
(*                                                                         *)
(* Three subsystems share one module.  Each has its own specification:     *)
(*   SpecAddons  - loadAddons, updateAddonConfig, POST /api/addons/reload  *)
(*   SpecFanout  - saveToDevices / handleFiles / uploadUpdate and the      *)
(*                 server-side distribution to all peers (SpecFanoutFair   *)
(*                 adds the fairness of the event loop)                    *)
(*   SpecPeers   - discovery announcements, sweep, manual add / remove     *)
(* A specification leaves the variables of the other subsystems alone.     *)
(***************************************************************************)
EXTENDS Integers, Sequences, FiniteSets, Bags, TLC

VARIABLES
    \* ---- addon runtime (main.js) ----
    entries,        \* the `addons` Map: insertion-ordered <<id, obj>>, obj = 0 once cleared
    objAddon,       \* addon object -> its addon id (addon.id)
    objEnabled,     \* addon object -> addon.enabled
    objCfg,         \* addon object -> addon.config.enabled ("unset", "true", "false")
    cfgAddons,      \* config.addons[id].enabled ("none" when config.addons has no entry)
    nextObj,        \* next fresh addon object / instance
    serverUp,       \* setupWebServer() has run (after the startup loadAddons)
    pc,             \* handler -> its await point
    kind,           \* handler -> "boot", "update", "reload" or "none"
    pobj,           \* handler -> the addon object whose init() it awaits
    pfile,          \* handler -> index of the addon file being loaded
    \* history of the addon runtime
    live,           \* addon object -> init invoked with no later stop invoked
    initsSinceStop, \* addon id -> init invocations since the last stop invocation (capped at 2)
    overlap,        \* some hook was invoked while another hook of the same addon id ran
    preReload,      \* handler -> the registered objects when its reload began
    preLive,        \* handler -> the live objects when its reload began
    scanFailed,     \* handler -> its readdir failed
    req,            \* handler -> the updateAddonConfig call it is serving: id, enabled key, addon was running
    hooks,          \* handler -> the hooks the call it is serving has invoked: stop, init
    offSince,       \* addon id -> a running addon was disabled and no update has enabled it since
    initWhileOff,   \* init was invoked for an addon id while offSince held for it
    \* ---- addon instances (datetime.js) ----
    instEnabled,    \* addon object -> this.config.enabled of its instance
    timers,         \* addon object -> the running timers of its instance: the field that holds
                    \* each, or the name the model gives a timer no field holds
    restartCmd,     \* addon object -> its instance ran exec('shutdown /r') or exec('sudo reboot'),
                    \* and whether its schedule was running or stopped then
    manifests,      \* addon file -> what its module exports: info, info.name, info.version present
    initFailed,     \* the registered addon objects whose init() threw in loadAddons
    \* ---- addon routes and the config file (main.js) ----
    reply,          \* handler -> the response of its route: status, addon id its error message names
    saved,          \* the `addons` key of the config file on disk
    snap,           \* handler -> what its pending saveConfig() serialised
    notified,       \* number of addons-update broadcasts so far
    cfgPw,          \* the addon ids whose config (config.addons[id], addon.config) has a password key
    snapPw,         \* handler -> the same, of what its pending saveConfig() serialised
    order,          \* the hooks the last step of updateAddonConfig invoked on an instance, in order
    stopRun,        \* the stop loop the last step ran: by whom, stop invoked on, throwers, error passed on
    savedPw,        \* the same, of the config file on disk
    \* ---- peer registry (main.js) ----
    peers,          \* config.peers: the array of peer records
    now,            \* Date.now(), in ms since startup
    staticIp,       \* config.staticIp ("" when none is configured)
    \* history of the peer registry
    ops,            \* number of registry operations so far
    lastOp,         \* the last registry operation, the peer id it named, whether it was registered
    swept,          \* the records the last sweep removed
    manualReplaced, \* ids whose discovered record an explicit add replaced
    heard,          \* id of a registered peer -> when its last announcement was processed
    roundTrip,      \* an add and the remove of the same id right after it: stage, id, registry before the add
    disk,           \* the `peers` key of the config file on disk
    inflight,       \* the liveness probes awaiting their response: the id of the record probed, and whether that object is still in config.peers
    routeRes,       \* what the remove or check route answered, when it was the last operation
    probed,         \* the probe that settled last, when no other operation followed: index, response, result
    \* ---- discovery service and host process (main.js) ----
    sock,           \* discoverySocket: "binding", "bound", "failed" (bind error) or "closed"
    armed,          \* the interval timers of setupDiscovery that are armed
    quit,           \* the before-quit handler has run
    up,             \* the host process runs
    \* ---- discovery timers (main.js) ----
    lostRun,        \* consecutive announcements of the remote peer that were lost
    annDone,        \* the remote peer's announcement due at `now` has arrived or was lost
    sweepDone,      \* the sweep due at `now` has run
    sweepPhase,     \* offset of the sweep timer against the remote announce timer
    seen,           \* an announcement of the remote peer has been processed
    \* ---- admin client (the page script) ----
    selectedDevices,  \* the Set of selected device ids, in insertion order
    editingDeviceId,  \* the device being edited (NoDevice for null)
    cpeers,           \* the client's `peers` array: what GET /api/peers last returned
    caddr,            \* the ip and port fields of the records of that array, by id
    fop,              \* the fan-out function that runs ("none": none yet)
    fpc,              \* its position: "idle", "await", "edit_await", "returned", "done"
    it,               \* position of the Set iterator in selectedDevices
    deviceId,         \* the loop variable: the device whose request is awaited
    successCount,
    failCount,
    report,           \* the message shown at the end ("none": none shown)
    hangs,            \* the devices that accept a connection and never respond
    toggles,          \* number of device-checkbox clicks so far
    \* history of the fan-out
    T0,             \* the selected devices when the fan-out was started
    issued,         \* the devices a request was started for
    counted,        \* device -> number of times it was added to a counter
    okAnswered,     \* the devices whose request was answered with a 2xx status
    errlog,         \* the devices a console.error line names
    cOfflineIssued, \* the devices a request was started for while offline or unknown to the client
    url,            \* device -> the URL the loop last passed to fetch for it
    \* ---- server-side distribution to all peers (main.js) ----
    sop,            \* "media", "update" or "none"
    spc,            \* "idle", "read" (await fs.readFile), "post" (await axios.post), "done"
    sidx,           \* index in config.peers of the peer being served
    sfile,          \* index of the file being sent
    sfiles,         \* number of files of the request
    \* history of the distribution
    sissued,        \* the peers a POST was started for
    sOfflineIssued, \* the peers a POST was started for while their record had online = false
    \* ---- several instances on one network (main.js of each) ----
    honline,        \* instance -> the peers of its config.peers whose online flag is true
    hheld,          \* instance -> the items stored on its disk
    hdist,          \* instance -> the distribution loop of its upload handler
    hwire,          \* the POSTs to a receive endpoint that are in flight
    hdown,          \* the instances that exited to apply an update
    huploads,       \* number of uploads the admin pages made
    \* history of the network
    hsends          \* the bag of the POSTs to a receive endpoint started so far

addonVars == <<entries, objAddon, objEnabled, objCfg, cfgAddons, nextObj, serverUp,
               pc, kind, pobj, pfile,
               live, initsSinceStop, overlap, preReload, preLive, scanFailed,
               req, hooks, offSince, initWhileOff, instEnabled, timers, restartCmd,
               manifests, initFailed, reply, saved, snap, notified, cfgPw, snapPw, savedPw,
               stopRun, order>>

pwVars == <<cfgPw, snapPw, savedPw>>

peerVars == <<peers, now, staticIp, ops, lastOp, swept, manualReplaced, disk, heard, roundTrip, probed, routeRes, inflight>>

clientVars == <<selectedDevices, editingDeviceId, cpeers, caddr, url, fop, fpc, it, deviceId, successCount, failCount,
                report, hangs, toggles, T0, issued, counted, okAnswered, errlog, cOfflineIssued>>

serverVars == <<sop, spc, sidx, sfile, sfiles, sissued, sOfflineIssued>>

hopVars == <<honline, hheld, hdist, hwire, hdown, huploads, hsends>>

timingVars == <<lostRun, annDone, sweepDone, sweepPhase, seen>>

discVars == <<sock, armed, quit, up>>

vars == <<addonVars, peerVars, timingVars, clientVars, serverVars, discVars, hopVars>>

\* What each subsystem leaves alone.
notAddons == <<peerVars, timingVars, clientVars, serverVars, discVars, hopVars>>
notPeers == <<addonVars, timingVars, clientVars, serverVars, discVars, hopVars>>
notClient == <<addonVars, peerVars, timingVars, serverVars, discVars, hopVars>>
notHop == <<addonVars, peerVars, timingVars, clientVars, serverVars, discVars>>
notServer == <<addonVars, clientVars, timingVars, discVars, hopVars, now, staticIp, ops, lastOp, swept, manualReplaced, disk, heard, roundTrip, probed, routeRes, inflight>>
notTiming == <<addonVars, clientVars, serverVars, discVars, hopVars, staticIp, ops, lastOp, swept, manualReplaced, disk, heard, roundTrip, probed, routeRes, inflight>>

\* ---------------------------------------------------------------- bounds
\* Number of HTTP request handlers that may run (and overlap) after startup.
MaxReq == 2
\* Number of records the peer array may hold.
MaxPeers == 2
\* Number of clock ticks (of TickMs) a behaviour may span.
MaxTicks == 2
\* Number of peer-registry operations a behaviour may hold.
MaxOps == 3
\* Number of liveness probes in flight at a time.
MaxInflight == 1
\* Number of device-checkbox clicks during a fan-out.
MaxToggles == 1
\* Number of files of a media upload.
MaxFiles == 2
\* Number of announce periods a behaviour of the discovery timers spans.
MaxPeriods == 9
\* Number of consecutive announcements of the remote peer that may be lost.
MaxLost == 2
\* Number of uploads the admin pages of the network make.
MaxUploads == 1

\* ------------------------------------------------------------ addon files
\* readdir(addonsDir), filtered to *.js, in directory order.
AddonFiles == <<"datetime", "broken", "restart">>

AddonIds == {AddonFiles[k] : k \in DOMAIN AddonFiles}

\* The exports of a module, as far as the validation of loadAddons looks at them.
FullManifest == [info |-> TRUE, name |-> TRUE, version |-> TRUE]
BrokenManifests ==
    {[info |-> FALSE, name |-> FALSE, version |-> FALSE],
     [info |-> TRUE, name |-> FALSE, version |-> TRUE],
     [info |-> TRUE, name |-> TRUE, version |-> FALSE]}

\* The validation that accepts every module.
ValidManifest_Any(m) == TRUE

\* !(!addonModule.info || !addonModule.info.name || !addonModule.info.version)
ValidManifest(m) == ~(~m.info \/ ~m.name \/ ~m.version)

Boot == 0
Handlers == 0..MaxReq
Requests == 1..MaxReq

\* Every loadAddons run creates one object per addon file.
MaxObj == (MaxReq + 1) * Len(AddonFiles)
ObjIds == 1..MaxObj

\* --------------------------------------------------------- the addons Map
\* A lookup that falls back on some registered object when the id has none.
MapGet_Fallback(ents, id) ==
    IF \E k \in DOMAIN ents : ents[k].id = id /\ ents[k].obj # 0
    THEN ents[CHOOSE k \in DOMAIN ents : ents[k].id = id /\ ents[k].obj # 0].obj
    ELSE IF \E k \in DOMAIN ents : ents[k].obj # 0
         THEN ents[CHOOSE k \in DOMAIN ents : ents[k].obj # 0].obj
         ELSE 0

\* addons.get(id): the object registered under id, 0 when there is none.
MapGet(ents, id) ==
    IF \E k \in DOMAIN ents : ents[k].id = id /\ ents[k].obj # 0
    THEN ents[CHOOSE k \in DOMAIN ents : ents[k].id = id /\ ents[k].obj # 0].obj
    ELSE 0

\* addons.set(id, obj): an existing key keeps its position, a new key is appended.
MapSet(ents, id, o) ==
    IF \E k \in DOMAIN ents : ents[k].id = id /\ ents[k].obj # 0
    THEN [k \in DOMAIN ents |->
            IF ents[k].id = id /\ ents[k].obj # 0 THEN [id |-> id, obj |-> o] ELSE ents[k]]
    ELSE Append(ents, [id |-> id, obj |-> o])

\* addons.clear(): every entry is emptied; a running iterator keeps its position.
MapClear(ents) == [k \in DOMAIN ents |-> [id |-> ents[k].id, obj |-> 0]]

\* The objects currently registered.
Registered(ents) == {ents[k].obj : k \in DOMAIN ents} \ {0}

\* addon.config.enabled !== false
EnabledOf(c) == c # "false"

\* newConfig alone, without the spread of the stored addon.config.
MergeCfg_Replace(old, e) == IF e = "keep" THEN "unset" ELSE e

\* { ...addon.config, ...newConfig } restricted to the `enabled` key;
\* e = "keep" is a request body without that key.
MergeCfg(old, e) == IF e = "keep" THEN old ELSE e

\* An assignment of the merged config to every entry of config.addons.
StoreCfg_All(cfg, a, c) == [b \in DOMAIN cfg |-> c]

\* config.addons[addonId] = <the merged config>
StoreCfg(cfg, a, c) == [cfg EXCEPT ![a] = c]

\* config.addons?.[addonId] || {}
LoadCfg(c) == IF c = "none" THEN "unset" ELSE c

\* ------------------------------------------------- the addon instances
\* The constructors: this.config = { enabled: <default>, ..., ...config }.
\* DateTimeAddon defaults to enabled, ScheduledRestartAddon to disabled.
CtorEnabled(a, c) == IF c = "unset" THEN a = "datetime" ELSE c = "true"

\* The timer fields of ScheduledRestartAddon.
TimerFields == {"restartTimer", "warningTimer", "updateTimer", "warningUpdateInterval"}

\* The timeout performRestart() arms for the restart command; no field holds
\* its handle.
RestartDelay == "restartDelay"

\* A timer that still runs after its field was assigned another timer: no
\* field holds its handle any more.
Lost(f) ==
    CASE f = "restartTimer" -> "lost restartTimer"
      [] f = "warningTimer" -> "lost warningTimer"
      [] f = "updateTimer" -> "lost updateTimer"
      [] f = "warningUpdateInterval" -> "lost warningUpdateInterval"

\* The fields startSchedule() assigns: startTimeUpdater() this.updateTimer,
\* then this.warningTimer and this.restartTimer.
Armed == {"restartTimer", "warningTimer", "updateTimer"}

\* stopSchedule() that leaves the interval showWarning() started running.
StopSchedule_KeepsInterval(o, tm) ==
    [tm EXCEPT ![o] = @ \ (TimerFields \ {"warningUpdateInterval"})]

\* stopSchedule(): the timer or interval of every field is cleared and the
\* field nulled.
StopSchedule(o, tm) == [tm EXCEPT ![o] = @ \ TimerFields]

\* startSchedule() that arms its timers without calling stopSchedule() first.
StartSchedule_NoStop(o, tm) ==
    [tm EXCEPT ![o] = (@ \ Armed) \cup {Lost(f) : f \in @ \cap Armed} \cup Armed]

\* startSchedule(): stopSchedule(), then startTimeUpdater() and the two
\* timeouts.  A timer a field still held would run on, lost.
StartSchedule(o, tm) ==
    [StopSchedule(o, tm) EXCEPT ![o] = (@ \ Armed) \cup {Lost(f) : f \in @ \cap Armed} \cup Armed]

\* instance.stop() on every object of O: ScheduledRestartAddon.stop() calls
\* stopSchedule(), DateTimeAddon.stop() only clears its font cache.
RECURSIVE StopAll(_, _)
StopAll(O, tm) ==
    IF O = {} THEN tm
    ELSE LET o == CHOOSE x \in O : TRUE
         IN  StopAll(O \ {o}, IF objAddon[o] = "restart" THEN StopSchedule(o, tm) ELSE tm)

\* instance.updateConfig(addon.config): this.config = { ...this.config, ...newConfig }.
UpdEnabled(o, c) == IF c = "unset" THEN instEnabled[o] ELSE c = "true"

\* ScheduledRestartAddon.updateConfig: when enabled, restartInterval, testMode
\* or testInterval changed (chg: one of the last three did), the schedule is
\* started or stopped according to the new this.config.enabled.
UpdSchedule(o, c, chg, tm) ==
    IF objAddon[o] = "restart" /\ (chg \/ UpdEnabled(o, c) # instEnabled[o])
    THEN IF UpdEnabled(o, c) THEN StartSchedule(o, tm) ELSE StopSchedule(o, tm)
    ELSE tm

\* The part of init() after its awaits: ScheduledRestartAddon.init() stops the
\* schedule when this.config.enabled is false and starts it otherwise;
\* DateTimeAddon.init() holds no timer.
InitTail(o, tm) ==
    IF objAddon[o] = "restart"
    THEN IF instEnabled[o] THEN StartSchedule(o, tm) ELSE StopSchedule(o, tm)
    ELSE tm

\* The body the admin page posts to /api/addons/:id/config carries the admin
\* password: { ...config, password: authPassword }.
BodyPassword == TRUE

\* A route that passes the body on as it came.
StripPassword_Keep(has) == has

\* delete newConfig.password: whether the object still has a password key.
StripPassword(has) == FALSE

\* { ...addon.config, ...newConfig } has a key when one of the two has it.
MergeKey(old, new) == old \/ new

\* The last step invoked no hook from updateAddonConfig.
NoOrder == [obj |-> 0, seq |-> <<>>, threw |-> FALSE]

\* updateAddonConfig with a stop() whose throw leaves the function: nothing
\* follows a stop that threw.
HookOrder_StopFatal(threw, enabled) ==
    IF threw THEN <<"stop">>
    ELSE <<"stop", "updateConfig">> \o (IF enabled THEN <<"init">> ELSE <<>>)

\* The hooks updateAddonConfig invokes on an instance, in order: stop() inside
\* a try/catch (threw: it threw), updateConfig(), and init() when
\* addon.enabled holds after the merge.
HookOrder(threw, enabled) ==
    <<"stop", "updateConfig">> \o (IF enabled THEN <<"init">> ELSE <<>>)

\* Hook h is among those of seq.
Ran(seq, h) == \E i \in DOMAIN seq : seq[i] = h

\* The last step ran no stop loop.
NoRun == [who |-> "none", invoked |-> {}, threw |-> {}, raised |-> FALSE]

\* The `default` of the setting with id "enabled" in the settings array a
\* module exports: true for the date/time addon, false for scheduled restart.
DeclaredDefault(a) == IF a = "datetime" THEN "true" ELSE "false"

\* getAddonConfigs(): for every id in the Map, addon.enabled and the `enabled`
\* key of addon.config ("unset" when addon.config has no such key).
GetAddonConfigs ==
    [a \in {x \in AddonIds : MapGet(entries, x) # 0} |->
        [enabled |-> objEnabled[MapGet(entries, a)], config |-> objCfg[MapGet(entries, a)]]]

\* A route that has not answered, res.json({ success: true }), and
\* res.status(500).json({ error: `Addon ${a} not found` }).
NoReply == [status |-> "none", err |-> "none"]
Success == [status |-> "200", err |-> "none"]
NotFound(a) == [status |-> "500", err |-> a]

\* config.addons without any entry.
NoCfg == [a \in AddonIds |-> "none"]

\* A handler that serves no updateAddonConfig call, and one that invoked no hook.
NoReq == [id |-> "none", e |-> "none", running |-> FALSE]
NoHooks == [stop |-> 0, init |-> 0]

\* The addon runtime of a subsystem that does not use it (no addon files).
AddonsIdle ==
    /\ entries = <<>>
    /\ objAddon = [o \in ObjIds |-> "none"]
    /\ objEnabled = [o \in ObjIds |-> FALSE]
    /\ objCfg = [o \in ObjIds |-> "unset"]
    /\ cfgAddons = [a \in AddonIds |-> "none"]
    /\ nextObj = 1
    /\ serverUp = TRUE
    /\ pc = [p \in Handlers |-> "done"]
    /\ kind = [p \in Handlers |-> "none"]
    /\ pobj = [p \in Handlers |-> 0]
    /\ pfile = [p \in Handlers |-> 0]
    /\ live = [o \in ObjIds |-> FALSE]
    /\ initsSinceStop = [a \in AddonIds |-> 0]
    /\ overlap = FALSE
    /\ preReload = [p \in Handlers |-> {}]
    /\ preLive = [p \in Handlers |-> {}]
    /\ scanFailed = [p \in Handlers |-> FALSE]
    /\ req = [p \in Handlers |-> NoReq]
    /\ hooks = [p \in Handlers |-> NoHooks]
    /\ offSince = [a \in AddonIds |-> FALSE]
    /\ initWhileOff = FALSE
    /\ instEnabled = [o \in ObjIds |-> FALSE]
    /\ timers = [o \in ObjIds |-> {}]
    /\ restartCmd = [o \in ObjIds |-> "none"]
    /\ initFailed = {}
    /\ reply = [p \in Handlers |-> NoReply]
    /\ saved = NoCfg
    /\ snap = [p \in Handlers |-> NoCfg]
    /\ cfgPw = {}
    /\ snapPw = [p \in Handlers |-> {}]
    /\ savedPw = {}
    /\ stopRun = NoRun
    /\ order = NoOrder
    /\ notified = 0
    /\ manifests = [a \in AddonIds |-> FullManifest]

\* ----------------------------------------------------------- peer registry
\* An absent field (undefined) of a peer record.
Undef == -1

\* const peerId = `${peerIp}:${data.port}`, id: `${ip}:${peerPort}`
PeerId(ip, port) == <<ip, port>>

\* The index of the record with this id in the array (findIndex), 0 for none.
FindIndex(ps, id) ==
    IF \E k \in DOMAIN ps : ps[k].id = id
    THEN CHOOSE k \in DOMAIN ps : ps[k].id = id /\ \A j \in DOMAIN ps : ps[j].id = id => k <= j
    ELSE 0

\* ------------------------------------------------- peer registry: inputs
\* config.displayName and config.port of this instance.
DisplayName == "self"
ConfigPort == 3000

\* Source addresses of datagrams, announced ports and names, and the values an
\* administrator may give to POST /api/peers/add (port 0: none given).
AnnAddrs == {"10.0.0.5", "127.0.0.1"}
AnnPorts == {3000, 3001}
Names == {"A", "B"}
AddIps == {"10.0.0.5"}
AddNames == {"M"}
AddPorts == {0, 3001}
ProbeNames == {"", "B"}

\* Where announcements of other instances come from: a LAN host on another
\* port, and this host (loopback) on this port and on another one.
AnnSources == {<<"10.0.0.5", 3001>>, <<"127.0.0.1", 3000>>, <<"127.0.0.1", 3001>>}

\* The datagrams that arrive: the announcements of other instances, one of
\* this instance itself, one message of another type, one without a type
\* (type "") and one that is not JSON.
Datagrams ==
    {[json |-> TRUE, type |-> "announce", id |-> "other", name |-> n, port |-> src[2], addr |-> src[1]] :
        n \in Names, src \in AnnSources}
    \cup {[json |-> TRUE, type |-> "announce", id |-> DisplayName, name |-> "A",
           port |-> 3000, addr |-> "127.0.0.1"],
          [json |-> TRUE, type |-> "hello", id |-> "other", name |-> "A",
           port |-> 3000, addr |-> "10.0.0.5"],
          [json |-> TRUE, type |-> "", id |-> "other", name |-> "A",
           port |-> 3001, addr |-> "10.0.0.5"],
          [json |-> FALSE, type |-> "announce", id |-> "other", name |-> "A",
           port |-> 3000, addr |-> "10.0.0.5"]}

\* The static IPs config.json may hold, and every peer id that can be derived.
StaticIps == {"", "10.0.0.9"}
PeerIps == (AnnAddrs \ {"127.0.0.1"}) \cup {"localhost"} \cup (StaticIps \ {""}) \cup AddIps
AllIds == {PeerId(ip, port) : ip \in PeerIps, port \in AnnPorts \cup {ConfigPort}}
NeverHeard == [id \in AllIds |-> Undef]

\* The indices of the records with this id.
WithId(ps, id) == {k \in DOMAIN ps : ps[k].id = id}

\* No add is being followed.
NoTrip == [stage |-> "none", id |-> <<>>, pre |-> <<>>]

\* What axios.get(url, { timeout: 2000 }) settles with: a rejection (no
\* connection, timeout, or a status outside 2xx) or a 2xx response whose body
\* was a JSON object (name: its displayName, "" when it has none), was not
\* JSON at all (response.data is the text), or was the JSON value null.
NoAnswer == [ok |-> FALSE, body |-> "none", name |-> ""]
Answer(body, name) == [ok |-> TRUE, body |-> body, name |-> name]
ProbeResponses ==
    {NoAnswer, Answer("text", ""), Answer("null", "")}
        \cup {Answer("object", n) : n \in ProbeNames}

\* No probe has settled since the last other operation.
NoProbe == [stage |-> "none", k |-> 0, r |-> NoAnswer, name |-> "", at |-> 0, ret |-> FALSE]

\* No answer of the remove or check route is being followed.
NoRes == <<"none", FALSE>>

\* The body DELETE /api/peers/:id answers with, existed telling whether a
\* record had the id: res.json({ success: true }) after the filter.
RemoveResponse(existed) == <<"success", TRUE>>

\* The body GET /api/peers/check/:id answers with: { online } as
\* checkPeerStatus resolved for a record that was found, { online: false }
\* when no record has the id.
CheckResponse(found, online) == IF found THEN <<"online", online>> ELSE <<"online", FALSE>>

\* No registry operation yet.
NoOp == [op |-> "none", id |-> <<>>, existed |-> FALSE]

\* A registry operation is counted.
CountOp ==
    /\ ops < MaxOps
    /\ ops' = ops + 1

\* The peer registry and the clock of a subsystem that does not use them.
PeersIdle ==
    /\ peers = <<>>
    /\ now = 0
    /\ staticIp = ""
    /\ ops = 0
    /\ lastOp = NoOp
    /\ swept = {}
    /\ manualReplaced = {}
    /\ disk = <<>>
    /\ heard = NeverHeard
    /\ roundTrip = NoTrip
    /\ probed = NoProbe
    /\ routeRes = NoRes
    /\ inflight = {}

\* The two setInterval timers of setupDiscovery.
DiscoveryTimers == {"announce", "sweep"}

\* The discovery service of a subsystem that does not follow it: the socket is
\* bound, the timers are armed, the host runs.
DiscIdle ==
    /\ sock = "bound"
    /\ armed = DiscoveryTimers
    /\ quit = FALSE
    /\ up = TRUE

\* The discovery timers of a subsystem that does not follow them.
TimingIdle ==
    /\ lostRun = 0
    /\ annDone = FALSE
    /\ sweepDone = FALSE
    /\ sweepPhase = 0
    /\ seen = FALSE

\* ---------------------------------------------------------------- fan-out
\* The device ids of the admin page: 'current' (this server) and peer ids.
Current == <<"current", 0>>
PeerA == PeerId("10.0.0.5", 3001)
PeerB == PeerId("localhost", 3000)
PeerTargets == {PeerA, PeerB}
Targets == {Current} \cup PeerTargets
NoDevice == <<"none", 0>>

\* What the client's `peers` array says of a peer id: peers.find(p => p.id ===
\* deviceId) finds no record ("unknown") or one with online true or false.
Snapshot(ps) ==
    [id \in PeerTargets |->
        IF FindIndex(ps, id) = 0 THEN "unknown"
        ELSE IF ps[FindIndex(ps, id)].online THEN "online" ELSE "offline"]

\* The ip and port fields of the record peers.find(p => p.id === deviceId)
\* finds (NoDevice when it finds none).
Addresses(ps) ==
    [id \in PeerTargets |->
        IF FindIndex(ps, id) = 0 THEN NoDevice
        ELSE <<ps[FindIndex(ps, id)].ip, ps[FindIndex(ps, id)].port>>]

\* URLs: a relative URL (the origin the page was loaded from, this server) and
\* `http://${ip}:${port}${endpoint}`; NoUrl before any request.
LocalUrl == <<"", 0>>
Http(ip, port) == <<ip, port>>
NoUrl == <<"none", 0>>

\* The instances of the network model, and the handler slot of an instance
\* that runs no distribution.
HopInstances == {"X", "Y", "Z"}
NoItem == [origin |-> "none", op |-> "none", n |-> 0]
NoDist == [item |-> NoItem, idx |-> 0, st |-> "idle"]

\* The network of a subsystem that looks at one instance only.
HopIdle ==
    /\ honline = [i \in HopInstances |-> {}]
    /\ hheld = [i \in HopInstances |-> {}]
    /\ hdist = [i \in HopInstances |-> NoDist]
    /\ hwire = {}
    /\ hdown = {}
    /\ huploads = 0
    /\ hsends = EmptyBag

\* The admin client and the distribution of a subsystem that does not use them.
FanoutIdle ==
    /\ selectedDevices = <<Current>>
    /\ editingDeviceId = NoDevice
    /\ cpeers = Snapshot(<<>>)
    /\ caddr = Addresses(<<>>)
    /\ url = [t \in Targets |-> NoUrl]
    /\ fop = "none"
    /\ fpc = "idle"
    /\ it = 0
    /\ deviceId = NoDevice
    /\ successCount = 0
    /\ failCount = 0
    /\ report = "none"
    /\ hangs = {}
    /\ toggles = 0
    /\ T0 = {}
    /\ issued = {}
    /\ counted = [t \in Targets |-> 0]
    /\ okAnswered = {}
    /\ errlog = {}
    /\ cOfflineIssued = {}
    /\ sop = "none"
    /\ spc = "idle"
    /\ sidx = 0
    /\ sfile = 0
    /\ sfiles = 0
    /\ sissued = {}
    /\ sOfflineIssued = {}
    /\ HopIdle

\* ------------------------------------------------------- lifecycle hooks
\* The hooks of the addons shipped in Addons/ are async functions.  init()
\* awaits file-system calls (ensureFontsDirectory, updateFontOptions), so
\* `await instance.init()` suspends its caller across event-loop turns and other
\* handlers run meanwhile.  stop() contains no await and updateConfig() is
\* synchronous: `await instance.stop()` resumes in the same turn, before any
\* other handler can run, so a stop and the code after it form one step.

\* The handlers suspended in init() of an object of addon id a.
InitHandlers(a) == {p \in Handlers : pc[p] \in {"u_init", "l_init"} /\ objAddon[pobj[p]] = a}

\* instance.stop() is invoked on every object of the set O.
LiveAfterStop(O) == [o \in ObjIds |-> IF o \in O THEN FALSE ELSE live[o]]
SinceAfterStop(O, since) ==
    [a \in AddonIds |-> IF \E o \in O : objAddon[o] = a THEN 0 ELSE since[a]]

\* instance.init() is invoked on an object of addon a.
SinceAfterInit(a, since) ==
    [since EXCEPT ![a] = IF since[a] < 2 THEN since[a] + 1 ELSE 2]

\* A hook of an object of O is invoked by handler p while another handler is
\* still inside init() of the same addon id.
\* before-quit runs in no request handler.
NoHandler == MaxReq + 1

Overlaps(p, O) == \E o \in O : InitHandlers(objAddon[o]) \ {p} # {}

\* ------------------------------------------------------------ loadAddons
\* The synchronous run of loadAddons' file loop from file k up to its next
\* await: every file gets a fresh object (new addonModule.Addon) that is
\* registered with addons.set; the loop suspends in init() of the first enabled
\* one (stop = its file index) or runs to the end (stop = 0).
RECURSIVE LoadScan(_, _)
LoadScan(S, k) ==
    IF k > Len(AddonFiles) THEN [S EXCEPT !.stop = 0]
    ELSE LET a == AddonFiles[k]
             o == S.next
             c == LoadCfg(cfgAddons[a])
             T == [ents    |-> MapSet(S.ents, a, o),
                   addonOf |-> [S.addonOf EXCEPT ![o] = a],
                   en      |-> [S.en EXCEPT ![o] = EnabledOf(c)],
                   cfg     |-> [S.cfg EXCEPT ![o] = c],
                   inst    |-> [S.inst EXCEPT ![o] = CtorEnabled(a, c)],
                   next    |-> o + 1,
                   stop    |-> 0]
         IN  IF ~ValidManifest(manifests[a]) THEN LoadScan(S, k + 1)
             ELSE IF EnabledOf(c) THEN [T EXCEPT !.stop = k] ELSE LoadScan(T, k + 1)

\* loadAddons returns to its caller: the startup sequence goes on to
\* setupWebServer(), the reload route broadcasts and answers.
LoadReturn(p) ==
    /\ pc' = [pc EXCEPT ![p] = "done"]
    /\ serverUp' = (serverUp \/ kind[p] = "boot")
    /\ notified' = IF kind[p] = "reload" THEN notified + 1 ELSE notified
    /\ reply' = IF kind[p] = "reload" THEN [reply EXCEPT ![p] = Success] ELSE reply

\* The file loop of loadAddons, (re)entered at file k.
LoadLoop(p, k) ==
    LET R == LoadScan([ents |-> entries, addonOf |-> objAddon, en |-> objEnabled,
                       cfg |-> objCfg, inst |-> instEnabled, next |-> nextObj, stop |-> 0], k)
        o == R.next - 1
    IN  /\ entries' = R.ents
        /\ objAddon' = R.addonOf
        /\ objEnabled' = R.en
        /\ objCfg' = R.cfg
        /\ instEnabled' = R.inst
        /\ nextObj' = R.next
        /\ IF R.stop # 0
           THEN /\ pc' = [pc EXCEPT ![p] = "l_init"]
                /\ pfile' = [pfile EXCEPT ![p] = R.stop]
                /\ pobj' = [pobj EXCEPT ![p] = o]
                /\ live' = [live EXCEPT ![o] = TRUE]
                /\ initsSinceStop' = SinceAfterInit(AddonFiles[R.stop], initsSinceStop)
                /\ overlap' = (overlap \/ InitHandlers(AddonFiles[R.stop]) \ {p} # {})
                /\ initWhileOff' = (initWhileOff \/ offSince[AddonFiles[R.stop]])
                /\ UNCHANGED <<serverUp, notified, reply>>
           ELSE /\ LoadReturn(p)
                /\ UNCHANGED <<pfile, pobj, live, initsSinceStop, overlap, initWhileOff>>

\* fs.readdir(addonsDir) settles: it fails (the catch at the end of loadAddons
\* logs and returns) or the file loop starts.
ReaddirReturns(p, ok) ==
    /\ ~quit
    /\ pc[p] = "l_readdir"
    /\ scanFailed' = [scanFailed EXCEPT ![p] = ~ok]
    /\ IF ok
       THEN LoadLoop(p, 1)
       ELSE /\ LoadReturn(p)
            /\ UNCHANGED <<entries, objAddon, objEnabled, objCfg, nextObj,
                           pfile, pobj, live, initsSinceStop, overlap, initWhileOff,
                           instEnabled>>
    /\ UNCHANGED <<cfgAddons, kind, preReload, preLive, req, hooks, offSince, timers, restartCmd,
                   manifests, initFailed, saved, snap>>
    /\ UNCHANGED pwVars
    /\ stopRun' = NoRun
    /\ order' = NoOrder
    /\ UNCHANGED notAddons

\* The file loop after a throw of init() left it at once for the catch block
\* at the end of loadAddons.
NextFile_Abort(k, ok) == IF ok THEN k + 1 ELSE Len(AddonFiles) + 1

\* The file the loop goes on with after init() of file k settled: the catch
\* block around init() logs a throw and the loop continues.
NextFile(k, ok) == k + 1

\* await addon.instance.init() of loadAddons settles: init() ran to its end, or
\* it threw before its tail.
LoadInitReturns(p, ok) ==
    /\ ~quit
    /\ pc[p] = "l_init"
    /\ restartCmd' = restartCmd
    /\ timers' = IF ok THEN InitTail(pobj[p], timers) ELSE timers
    /\ initFailed' = IF ok \/ pobj[p] \notin Registered(entries)
                     THEN initFailed ELSE initFailed \cup {pobj[p]}
    /\ LoadLoop(p, NextFile(pfile[p], ok))
    /\ UNCHANGED <<cfgAddons, kind, preReload, preLive, scanFailed, req, hooks, offSince,
                   manifests, saved, snap>>
    /\ UNCHANGED pwVars
    /\ stopRun' = NoRun
    /\ order' = NoOrder
    /\ UNCHANGED notAddons

\* ----------------------------------------------------- updateAddonConfig
\* POST /api/addons/:id/config -> updateAddonConfig(a, newConfig), up to its
\* first suspension.  An unknown id throws (the route answers 500).  Otherwise
\* the merged config is stored in config.addons and on the addon object,
\* enabled is recomputed, instance.stop() and instance.updateConfig() run, and
\* either instance.init() is invoked (addon.enabled) or saveConfig() is.
StartUpdate(p, a, e, chg, thr) ==
    /\ ~quit
    /\ serverUp
    /\ pc[p] = "idle"
    /\ p = 1 \/ pc[p - 1] # "idle"
    /\ kind' = [kind EXCEPT ![p] = "update"]
    /\ LET o == MapGet(entries, a)
           c == MergeCfg(objCfg[o], e)
           seq == HookOrder(thr, EnabledOf(c))
           stopped == IF thr THEN timers ELSE StopAll({o}, timers)
       IN  IF o = 0
           THEN /\ ~thr
                /\ order' = NoOrder
                /\ pc' = [pc EXCEPT ![p] = "done"]
                /\ reply' = [reply EXCEPT ![p] = NotFound(a)]
                /\ UNCHANGED <<cfgAddons, objCfg, objEnabled, pobj,
                               live, initsSinceStop, overlap,
                               req, hooks, offSince, initWhileOff, instEnabled, timers, restartCmd, snap,
                               cfgPw, snapPw>>
           ELSE /\ cfgAddons' = StoreCfg(cfgAddons, a, c)
                /\ order' = [obj |-> o, seq |-> seq, threw |-> thr]
                /\ cfgPw' = IF MergeKey(a \in cfgPw, StripPassword(BodyPassword))
                            THEN cfgPw \cup {a} ELSE cfgPw \ {a}
                /\ snapPw' = IF EnabledOf(c) THEN snapPw ELSE [snapPw EXCEPT ![p] = cfgPw']
                /\ req' = [req EXCEPT ![p] =
                              [id |-> a, e |-> e, running |-> objEnabled[o] /\ live[o]]]
                /\ hooks' = [hooks EXCEPT ![p] =
                              [stop |-> 1, init |-> IF EnabledOf(c) THEN 1 ELSE 0]]
                /\ offSince' = [offSince EXCEPT ![a] =
                              IF e = "false" /\ objEnabled[o] /\ live[o] THEN TRUE
                              ELSE IF e = "true" THEN FALSE ELSE @]
                /\ initWhileOff' = (initWhileOff \/ (EnabledOf(c) /\ offSince'[a]))
                /\ objCfg' = [objCfg EXCEPT ![o] = c]
                /\ objEnabled' = [objEnabled EXCEPT ![o] = EnabledOf(c)]
                /\ pobj' = [pobj EXCEPT ![p] = o]
                /\ instEnabled' = IF Ran(seq, "updateConfig")
                                  THEN [instEnabled EXCEPT ![o] = UpdEnabled(o, c)]
                                  ELSE instEnabled
                /\ restartCmd' = restartCmd
                /\ timers' = IF Ran(seq, "updateConfig")
                             THEN UpdSchedule(o, c, chg, stopped)
                             ELSE stopped
                /\ overlap' = (overlap \/ Overlaps(p, {o}))
                /\ IF Ran(seq, "init")
                   THEN /\ pc' = [pc EXCEPT ![p] = "u_init"]
                        /\ live' = [live EXCEPT ![o] = TRUE]
                        /\ initsSinceStop' =
                              SinceAfterInit(a, SinceAfterStop({o}, initsSinceStop))
                   ELSE /\ pc' = [pc EXCEPT ![p] = "u_save"]
                        /\ live' = LiveAfterStop({o})
                        /\ initsSinceStop' = SinceAfterStop({o}, initsSinceStop)
                /\ snap' = IF EnabledOf(c) THEN snap ELSE [snap EXCEPT ![p] = cfgAddons']
                /\ UNCHANGED reply
    /\ UNCHANGED <<entries, objAddon, nextObj, serverUp, pfile,
                   preReload, preLive, scanFailed, manifests, initFailed, saved, notified, savedPw>>
    /\ stopRun' = NoRun
    /\ UNCHANGED notAddons

\* await addon.instance.init() of updateAddonConfig settles (a throw is caught);
\* saveConfig() is called.
UpdateInitReturns(p, ok) ==
    /\ ~quit
    /\ pc[p] = "u_init"
    /\ pc' = [pc EXCEPT ![p] = "u_save"]
    /\ restartCmd' = restartCmd
    /\ timers' = IF ok THEN InitTail(pobj[p], timers) ELSE timers
    /\ snap' = [snap EXCEPT ![p] = cfgAddons]
    /\ snapPw' = [snapPw EXCEPT ![p] = cfgPw]
    /\ UNCHANGED <<manifests, initFailed, reply, saved, notified, cfgPw, savedPw>>
    /\ stopRun' = NoRun
    /\ order' = NoOrder
    /\ UNCHANGED <<entries, objAddon, objEnabled, objCfg, cfgAddons, nextObj, serverUp,
                   kind, pobj, pfile, live, initsSinceStop, overlap,
                   preReload, preLive, scanFailed, req, hooks, offSince, initWhileOff,
                   instEnabled>>
    /\ UNCHANGED notAddons

\* await saveConfig() settles: what it serialised when it was called is on
\* disk; broadcastAddonUpdate(); the route answers.
UpdateSaveReturns(p) ==
    /\ ~quit
    /\ pc[p] = "u_save"
    /\ pc' = [pc EXCEPT ![p] = "done"]
    /\ req' = [req EXCEPT ![p] = NoReq]
    /\ hooks' = [hooks EXCEPT ![p] = NoHooks]
    /\ saved' = snap[p]
    /\ snap' = [snap EXCEPT ![p] = NoCfg]
    /\ savedPw' = snapPw[p]
    /\ snapPw' = [snapPw EXCEPT ![p] = {}]
    /\ UNCHANGED cfgPw
    /\ stopRun' = NoRun
    /\ order' = NoOrder
    /\ notified' = notified + 1
    /\ reply' = [reply EXCEPT ![p] = Success]
    /\ UNCHANGED <<entries, objAddon, objEnabled, objCfg, cfgAddons, nextObj, serverUp,
                   kind, pobj, pfile, live, initsSinceStop, overlap,
                   preReload, preLive, scanFailed, offSince, initWhileOff,
                   instEnabled, timers, restartCmd, manifests, initFailed>>
    /\ UNCHANGED notAddons

\* --------------------------------------------------------- showWarning
\* The warningTimer of a ScheduledRestartAddon instance fires: showWarning()
\* starts the warning-update interval.
WarningFires(o) ==
    /\ ~quit
    /\ "warningTimer" \in timers[o]
    /\ restartCmd' = restartCmd
    /\ timers' = [timers EXCEPT ![o] =
                     (@ \ {"warningTimer"})
                         \cup {Lost(f) : f \in @ \cap {"warningUpdateInterval"}}
                         \cup {"warningUpdateInterval"}]
    /\ UNCHANGED <<entries, objAddon, objEnabled, objCfg, cfgAddons, nextObj, serverUp,
                   pc, kind, pobj, pfile, live, initsSinceStop, overlap,
                   preReload, preLive, scanFailed, req, hooks, offSince, initWhileOff,
                   instEnabled, manifests, initFailed, reply, saved, snap, notified>>
    /\ UNCHANGED pwVars
    /\ stopRun' = NoRun
    /\ order' = NoOrder
    /\ UNCHANGED notAddons

\* ------------------------------------------------------ performRestart
\* The restartTimer of a ScheduledRestartAddon instance fires, after the
\* warningTimer armed before it with a delay that is not longer:
\* performRestart() broadcasts restart-now and arms the timeout of the restart
\* command.
RestartFires(o) ==
    /\ ~quit
    /\ "restartTimer" \in timers[o]
    /\ "warningTimer" \notin timers[o]
    /\ RestartDelay \notin timers[o]
    /\ restartCmd[o] = "none"
    /\ restartCmd' = restartCmd
    /\ timers' = [timers EXCEPT ![o] = (@ \ {"restartTimer"}) \cup {RestartDelay}]
    /\ UNCHANGED <<entries, objAddon, objEnabled, objCfg, cfgAddons, nextObj, serverUp,
                   pc, kind, pobj, pfile, live, initsSinceStop, overlap,
                   preReload, preLive, scanFailed, req, hooks, offSince, initWhileOff,
                   instEnabled, manifests, initFailed, reply, saved, snap, notified>>
    /\ UNCHANGED pwVars
    /\ stopRun' = NoRun
    /\ order' = NoOrder
    /\ UNCHANGED notAddons

\* The timeout of performRestart() fires: exec('shutdown /r /t 0') or
\* exec('sudo reboot').  The schedule of the instance runs while its
\* updateTimer does, from startSchedule() to the next stopSchedule().
ExecFires(o) ==
    /\ ~quit
    /\ RestartDelay \in timers[o]
    /\ restartCmd' = [restartCmd EXCEPT ![o] =
                         IF "updateTimer" \in timers[o] THEN "scheduled" ELSE "stopped"]
    /\ timers' = [timers EXCEPT ![o] = @ \ {RestartDelay}]
    /\ UNCHANGED <<entries, objAddon, objEnabled, objCfg, cfgAddons, nextObj, serverUp,
                   pc, kind, pobj, pfile, live, initsSinceStop, overlap,
                   preReload, preLive, scanFailed, req, hooks, offSince, initWhileOff,
                   instEnabled, manifests, initFailed, reply, saved, snap, notified>>
    /\ UNCHANGED pwVars
    /\ stopRun' = NoRun
    /\ order' = NoOrder
    /\ UNCHANGED notAddons

\* ------------------------------------------------ POST /api/addons/reload
\* The objects the stop loop of the reload route stops: those passing
\* addon.enabled && addon.instance && addon.instance.stop.
StopSet(ents, en) == {o \in Registered(ents) : en[o]}

\* A stop loop without try/catch around `await addon.instance.stop()`: the
\* first stop that throws ends the loop and the error reaches the caller.
StopPhase_NoCatch(ents, en, thr) ==
    LET S == StopSet(ents, en)
        T == {k \in DOMAIN ents : ents[k].obj \in S \cap thr}
    IN  IF T = {} THEN [invoked |-> S, raised |-> FALSE]
        ELSE LET k0 == CHOOSE k \in T : \A j \in T : k <= j
             IN  [invoked |-> {ents[k].obj : k \in 1..k0} \cap S, raised |-> TRUE]

\* The stop loop of the reload route and of before-quit, thr being the objects
\* whose stop() throws: each throw is caught and logged inside the loop, so
\* stop() is invoked on every object of the stop set and nothing is passed on.
StopPhase(ents, en, thr) == [invoked |-> StopSet(ents, en), raised |-> FALSE]

\* The objects of O whose stop() ran to its end.  ScheduledRestartAddon.stop()
\* can only throw in its first statement, before stopSchedule().
Completed(O, thr) == O \ thr

\* The reload route up to its first suspension: the stop loop, addons.clear(),
\* and loadAddons() up to its await of readdir.
StartReload(p, thr) ==
    /\ ~quit
    /\ serverUp
    /\ pc[p] = "idle"
    /\ p = 1 \/ pc[p - 1] # "idle"
    /\ thr \subseteq StopSet(entries, objEnabled)
    /\ kind' = [kind EXCEPT ![p] = "reload"]
    /\ preReload' = [preReload EXCEPT ![p] = Registered(entries)]
    /\ preLive' = [preLive EXCEPT ![p] = {o \in Registered(entries) : live[o]}]
    /\ LET ph == StopPhase(entries, objEnabled, thr)
       IN  /\ live' = LiveAfterStop(ph.invoked)
           /\ initsSinceStop' = SinceAfterStop(ph.invoked, initsSinceStop)
           /\ overlap' = (overlap \/ Overlaps(p, ph.invoked))
           /\ restartCmd' = restartCmd
           /\ timers' = StopAll(Completed(ph.invoked, thr), timers)
           /\ order' = NoOrder
           /\ stopRun' = [who |-> "reload", invoked |-> ph.invoked, threw |-> thr,
                          raised |-> ph.raised]
           /\ IF ph.raised
              THEN /\ pc' = [pc EXCEPT ![p] = "done"]
                   /\ reply' = [reply EXCEPT ![p] = [status |-> "500", err |-> "stop"]]
                   /\ UNCHANGED <<initFailed, entries>>
              ELSE /\ pc' = [pc EXCEPT ![p] = "l_readdir"]
                   /\ initFailed' = {}
                   /\ entries' = MapClear(entries)
                   /\ UNCHANGED reply
    /\ UNCHANGED <<objAddon, objEnabled, objCfg, cfgAddons, nextObj, serverUp, pobj, pfile,
                   scanFailed, req, hooks, offSince, initWhileOff, instEnabled,
                   manifests, saved, snap, notified>>
    /\ UNCHANGED pwVars
    /\ UNCHANGED notAddons

\* ------------------------------------------------------------ before-quit
\* app.on('before-quit'): the stop loop over the addons (thr: the objects
\* whose stop() throws), then discoverySocket.close().  No clearInterval is
\* called; the timers stay armed until the process ends.
BeforeQuit(thr) ==
    /\ up
    /\ ~quit
    /\ thr \subseteq StopSet(entries, objEnabled)
    /\ quit' = TRUE
    /\ LET ph == StopPhase(entries, objEnabled, thr)
       IN  /\ live' = LiveAfterStop(ph.invoked)
           /\ initsSinceStop' = SinceAfterStop(ph.invoked, initsSinceStop)
           /\ overlap' = (overlap \/ Overlaps(NoHandler, ph.invoked))
           /\ restartCmd' = restartCmd
           /\ timers' = StopAll(Completed(ph.invoked, thr), timers)
           /\ order' = NoOrder
           /\ stopRun' = [who |-> "quit", invoked |-> ph.invoked, threw |-> thr,
                          raised |-> ph.raised]
           /\ sock' = IF ph.raised THEN sock ELSE "closed"
    /\ lastOp' = [NoOp EXCEPT !.op = "quit"]
    /\ swept' = {}
    /\ roundTrip' = NoTrip
    /\ probed' = NoProbe
    /\ routeRes' = NoRes
    /\ inflight' = inflight
    /\ UNCHANGED <<armed, up, peers, now, staticIp, ops, manualReplaced, disk, heard>>
    /\ UNCHANGED <<entries, objAddon, objEnabled, objCfg, cfgAddons, nextObj, serverUp,
                   pc, kind, pobj, pfile, preReload, preLive, scanFailed, req, hooks,
                   offSince, initWhileOff, instEnabled, manifests, initFailed, reply,
                   saved, snap, notified>>
    /\ UNCHANGED pwVars
    /\ UNCHANGED <<timingVars, clientVars, serverVars, hopVars>>

\* ------------------------------------------------------------ SpecAddons
\* The state when app.whenReady() has called loadAddons(): the Map is empty,
\* config.addons is what loadConfig() read, readdir is pending.
InitAddons ==
    /\ entries = <<>>
    /\ objAddon = [o \in ObjIds |-> "none"]
    /\ objEnabled = [o \in ObjIds |-> FALSE]
    /\ objCfg = [o \in ObjIds |-> "unset"]
    /\ cfgAddons \in [AddonIds -> {"none", "false"}]
    /\ cfgAddons["broken"] = "none"
    /\ nextObj = 1
    /\ serverUp = FALSE
    /\ pc = [p \in Handlers |-> IF p = Boot THEN "l_readdir" ELSE "idle"]
    /\ kind = [p \in Handlers |-> IF p = Boot THEN "boot" ELSE "none"]
    /\ pobj = [p \in Handlers |-> 0]
    /\ pfile = [p \in Handlers |-> 0]
    /\ live = [o \in ObjIds |-> FALSE]
    /\ initsSinceStop = [a \in AddonIds |-> 0]
    /\ overlap = FALSE
    /\ preReload = [p \in Handlers |-> {}]
    /\ preLive = [p \in Handlers |-> {}]
    /\ scanFailed = [p \in Handlers |-> FALSE]
    /\ req = [p \in Handlers |-> NoReq]
    /\ hooks = [p \in Handlers |-> NoHooks]
    /\ offSince = [a \in AddonIds |-> FALSE]
    /\ initWhileOff = FALSE
    /\ instEnabled = [o \in ObjIds |-> FALSE]
    /\ timers = [o \in ObjIds |-> {}]
    /\ restartCmd = [o \in ObjIds |-> "none"]
    /\ initFailed = {}
    /\ reply = [p \in Handlers |-> NoReply]
    /\ saved = cfgAddons
    /\ snap = [p \in Handlers |-> NoCfg]
    /\ cfgPw = {}
    /\ snapPw = [p \in Handlers |-> {}]
    /\ savedPw = {}
    /\ stopRun = NoRun
    /\ order = NoOrder
    /\ notified = 0
    /\ manifests \in {[a \in AddonIds |-> IF a = "broken" THEN m ELSE FullManifest] :
                        m \in BrokenManifests}
    /\ PeersIdle
    /\ TimingIdle
    /\ FanoutIdle
    /\ DiscIdle

NextAddons ==
    \/ \E p \in Handlers, ok \in BOOLEAN : ReaddirReturns(p, ok)
    \/ \E p \in Handlers, ok \in BOOLEAN : LoadInitReturns(p, ok)
    \/ \E p \in Requests, a \in AddonIds, e \in {"keep", "true", "false"}, chg \in BOOLEAN :
          \E thr \in BOOLEAN : StartUpdate(p, a, e, chg, thr)
    \/ \E o \in ObjIds : WarningFires(o)
    \/ \E p \in Requests, ok \in BOOLEAN : UpdateInitReturns(p, ok)
    \/ \E p \in Requests : UpdateSaveReturns(p)
    \/ \E p \in Requests, thr \in SUBSET StopSet(entries, objEnabled) : StartReload(p, thr)

SpecAddons == InitAddons /\ [][NextAddons]_vars

\* ---------------------------------------------------------- SpecShutdown
\* The addon lifecycle with the host's shutdown: before-quit can come at any
\* moment.  The addons directory holds one module without `info`.
InitShutdown == InitAddons /\ ~manifests["broken"].info

NextShutdown ==
    \/ NextAddons
    \/ \E thr \in SUBSET StopSet(entries, objEnabled) : BeforeQuit(thr)

SpecShutdown == InitShutdown /\ [][NextShutdown]_vars

\* ----------------------------------------------------------- SpecRestart
\* The addon lifecycle with the restart deadline of the scheduled-restart
\* addon: its restartTimer may fire, and then the timeout of performRestart.
NextRestart ==
    \/ NextAddons
    \/ \E o \in ObjIds : RestartFires(o)
    \/ \E o \in ObjIds : ExecFires(o)

SpecRestart == InitShutdown /\ [][NextRestart]_vars

\* ----------------------------------------------- peer registry: operations
\* The effective peer IP of an announcement: a loopback source is remapped to
\* the static IP (when one is configured and the peer uses another port) or to
\* 'localhost'.
PeerIp(addr, port) ==
    IF addr = "127.0.0.1"
    THEN IF staticIp # "" /\ port # ConfigPort THEN staticIp ELSE "localhost"
    ELSE addr

\* A handler that pushes a record for every announcement, without the lookup.
Upsert_AlwaysPush(ps, name, port, addr, t) ==
    LET ip == PeerIp(addr, port)
    IN  Append(ps, [id |-> PeerId(ip, port), ip |-> ip, port |-> port, name |-> name,
                    manual |-> FALSE, online |-> TRUE,
                    lastSeen |-> t, lastChecked |-> Undef])

\* A handler that also refreshes the ip of the record it finds, from the
\* source address of the datagram.
Upsert_RawIp(ps, name, port, addr, t) ==
    LET ip == PeerIp(addr, port)
        id == PeerId(ip, port)
        k  == FindIndex(ps, id)
    IN  IF k # 0
        THEN [ps EXCEPT ![k] = [@ EXCEPT !.name = name, !.lastSeen = t,
                                         !.online = TRUE, !.port = port, !.ip = addr]]
        ELSE Append(ps, [id |-> id, ip |-> ip, port |-> port, name |-> name,
                         manual |-> FALSE, online |-> TRUE,
                         lastSeen |-> t, lastChecked |-> Undef])

\* An upsert that writes manual = false into the record it updates.
Upsert_Demote(ps, name, port, addr, t) ==
    LET ip == PeerIp(addr, port)
        id == PeerId(ip, port)
        k  == FindIndex(ps, id)
    IN  IF k # 0
        THEN [ps EXCEPT ![k] = [@ EXCEPT !.name = name, !.lastSeen = t,
                                         !.online = TRUE, !.port = port,
                                         !.manual = FALSE]]
        ELSE Append(ps, [id |-> id, ip |-> ip, port |-> port, name |-> name,
                         manual |-> FALSE, online |-> TRUE,
                         lastSeen |-> t, lastChecked |-> Undef])

\* The registry after an announcement from addr: the record with the derived id
\* is updated in place, or a new discovered record is pushed.
Upsert(ps, name, port, addr, t) ==
    LET ip == PeerIp(addr, port)
        id == PeerId(ip, port)
        k  == FindIndex(ps, id)
    IN  IF k # 0
        THEN [ps EXCEPT ![k] = [@ EXCEPT !.name = name, !.lastSeen = t,
                                         !.online = TRUE, !.port = port]]
        ELSE Append(ps, [id |-> id, ip |-> ip, port |-> port, name |-> name,
                         manual |-> FALSE, online |-> TRUE,
                         lastSeen |-> t, lastChecked |-> Undef])

\* A listener that does not compare the announced id with its own name.
Accepted_Self(json, type, id) == json /\ type = "announce"

\* JSON.parse succeeds and data.type === 'announce' && data.id !==
\* config.displayName.
Accepted(json, type, id) == json /\ type = "announce" /\ id # DisplayName

\* discoverySocket.on('message'): the datagram is parsed (a parse error is
\* caught and logged); an announce whose id is not the local display name is
\* upserted, anything else is ignored.
Datagram(json, type, id, name, port, addr) ==
    /\ Len(peers) < MaxPeers \/ FindIndex(peers, PeerId(PeerIp(addr, port), port)) # 0
    /\ peers' = IF Accepted(json, type, id)
                THEN Upsert(peers, name, port, addr, now)
                ELSE peers
    /\ lastOp' = IF Accepted(json, type, id)
                 THEN [op |-> "announce", id |-> PeerId(PeerIp(addr, port), port),
                       existed |-> FindIndex(peers, PeerId(PeerIp(addr, port), port)) # 0]
                 ELSE [NoOp EXCEPT !.op = "ignored"]
    /\ heard' = IF Accepted(json, type, id)
                THEN [heard EXCEPT ![PeerId(PeerIp(addr, port), port)] = now]
                ELSE heard
    /\ roundTrip' = NoTrip
    /\ probed' = NoProbe
    /\ routeRes' = NoRes
    /\ inflight' = inflight
    /\ CountOp
    /\ swept' = {}
    /\ UNCHANGED <<now, staticIp, manualReplaced, disk>>
    /\ UNCHANGED notPeers

\* peer.manual || (now - peer.lastSeen < 30000); with lastSeen undefined the
\* difference is NaN and the comparison is false.
StaleMs == 30000
\* The periods of the announce timer and of the sweep timer of setupDiscovery.
AnnounceMs == 5000
SweepMs == 10000
\* A window of three announce periods instead of the 30 s of the sweep.
Fresh_Tight(p, t) == p.lastSeen # Undef /\ t - p.lastSeen < 3 * AnnounceMs
Fresh(p, t) == p.lastSeen # Undef /\ t - p.lastSeen < StaleMs
\* A sweep that spares the peers whose last probe succeeded, and one that does
\* not look at the manual flag.
Keep_Online(p, t) == p.manual \/ p.online \/ Fresh(p, t)
Keep_NoManual(p, t) == Fresh(p, t)
Keep(p, t) == p.manual \/ Fresh(p, t)

\* The probes in flight once the records with these ids have left
\* config.peers (filtered out, or replaced by a new object): checkPeerStatus
\* holds the object it was called with, which is no longer in the array.
Detach(fl, ids) == {[id |-> f.id, attached |-> f.attached /\ f.id \notin ids] : f \in fl}

\* The sweep timer of setupDiscovery.
Sweep ==
    /\ peers' = SelectSeq(peers, LAMBDA p : Keep(p, now))
    /\ swept' = {peers[k] : k \in {j \in DOMAIN peers : ~Keep(peers[j], now)}}
    /\ lastOp' = [NoOp EXCEPT !.op = "sweep"]
    /\ heard' = [id \in AllIds |-> IF FindIndex(peers', id) # 0 THEN heard[id] ELSE Undef]
    /\ roundTrip' = NoTrip
    /\ probed' = NoProbe
    /\ routeRes' = NoRes
    /\ inflight' = Detach(inflight, {p.id : p \in swept'})
    /\ CountOp
    /\ UNCHANGED <<now, staticIp, manualReplaced, disk>>
    /\ UNCHANGED notPeers

\* POST /api/peers/add: the new manual record replaces the record with the same
\* id or is pushed, and saveConfig() serialises the configuration.
AddManual(ip, name, port) ==
    LET peerPort == IF port = 0 THEN ConfigPort ELSE port
        peer == [id |-> PeerId(ip, peerPort), ip |-> ip, port |-> peerPort, name |-> name,
                 manual |-> TRUE, online |-> FALSE,
                 lastSeen |-> Undef, lastChecked |-> 0]
        k == FindIndex(peers, peer.id)
    IN  /\ Len(peers) < MaxPeers \/ k # 0
        /\ peers' = IF k # 0 THEN [peers EXCEPT ![k] = peer] ELSE Append(peers, peer)
        /\ manualReplaced' = IF k # 0 /\ ~peers[k].manual
                             THEN manualReplaced \cup {peer.id}
                             ELSE manualReplaced
        /\ disk' = peers'
        /\ lastOp' = [op |-> "add", id |-> peer.id, existed |-> k # 0]
        /\ heard' = [heard EXCEPT ![peer.id] = Undef]
        /\ roundTrip' = [stage |-> "added", id |-> peer.id, pre |-> peers]
        /\ probed' = NoProbe
        /\ routeRes' = NoRes
        /\ inflight' = Detach(inflight, {peer.id})
        /\ CountOp
        /\ swept' = {}
        /\ UNCHANGED <<now, staticIp>>
        /\ UNCHANGED notPeers

\* A removal that spares the manual records.
Without_Discovered(ps, id) == SelectSeq(ps, LAMBDA p : p.id # id \/ p.manual)

\* config.peers.filter(p => p.id !== peerId)
Without(ps, id) == SelectSeq(ps, LAMBDA p : p.id # id)

\* DELETE /api/peers/:id, with its saveConfig()
Remove(id) ==
    /\ peers' = Without(peers, id)
    /\ roundTrip' = IF roundTrip.stage = "added" /\ roundTrip.id = id
                    THEN [roundTrip EXCEPT !.stage = "removed"]
                    ELSE NoTrip
    /\ probed' = NoProbe
    /\ routeRes' = RemoveResponse(FindIndex(peers, id) # 0)
    /\ inflight' = Detach(inflight, {id})
    /\ lastOp' = [op |-> "remove", id |-> id, existed |-> FindIndex(peers, id) # 0]
    /\ manualReplaced' = manualReplaced \ {id}
    /\ disk' = peers'
    /\ heard' = [heard EXCEPT ![id] = Undef]
    /\ CountOp
    /\ swept' = {}
    /\ UNCHANGED <<now, staticIp>>
    /\ UNCHANGED notPeers

\* checkPeerStatus without the write of online = false in its catch block.
CheckPeerStatus_KeepOnline(peer, r, t) ==
    IF r.ok /\ r.body # "null"
    THEN [peer |-> [peer EXCEPT !.online = TRUE, !.lastChecked = t,
                                !.name = IF r.body = "object" /\ r.name # "" THEN r.name ELSE @],
          ret  |-> TRUE]
    ELSE [peer |-> [peer EXCEPT !.lastChecked = t], ret |-> FALSE]

\* checkPeerStatus(peer) once axios.get has settled with r at time t: the
\* record it leaves and the value it resolves to.  A rejection goes to the
\* catch block.  On a response, online and lastChecked are written and
\* response.data.displayName is read: undefined on a text body, a TypeError on
\* null (caught by the same catch block, which overwrites online).
CheckPeerStatus(peer, r, t) ==
    IF r.ok /\ r.body # "null"
    THEN [peer |-> [peer EXCEPT !.online = TRUE, !.lastChecked = t,
                                !.name = IF r.body = "object" /\ r.name # "" THEN r.name ELSE @],
          ret  |-> TRUE]
    ELSE [peer |-> [peer EXCEPT !.online = FALSE, !.lastChecked = t], ret |-> FALSE]

\* checkPeerStatus(peer) settles for the k-th record, its request having
\* settled with r.
CheckSettles(k, r) ==
    /\ k \in DOMAIN peers
    /\ peers' = [peers EXCEPT ![k] = CheckPeerStatus(@, r, now).peer]
    /\ probed' = [stage |-> "settled", k |-> k, r |-> r, name |-> peers[k].name, at |-> now,
                  ret |-> CheckPeerStatus(peers[k], r, now).ret]
    /\ routeRes' = CheckResponse(TRUE, CheckPeerStatus(peers[k], r, now).ret)
    /\ inflight' = inflight
    /\ lastOp' = [op |-> "check", id |-> peers[k].id, existed |-> TRUE]
    /\ roundTrip' = NoTrip
    /\ CountOp
    /\ swept' = {}
    /\ UNCHANGED <<now, staticIp, manualReplaced, disk, heard>>
    /\ UNCHANGED notPeers

\* GET /api/peers/check/:id for an id no record has: the else branch answers
\* without calling checkPeerStatus.
CheckUnknown(id) ==
    /\ FindIndex(peers, id) = 0
    /\ routeRes' = CheckResponse(FALSE, FALSE)
    /\ inflight' = inflight
    /\ lastOp' = [op |-> "check", id |-> id, existed |-> FALSE]
    /\ probed' = NoProbe
    /\ roundTrip' = NoTrip
    /\ CountOp
    /\ swept' = {}
    /\ UNCHANGED <<peers, now, staticIp, manualReplaced, disk, heard>>
    /\ UNCHANGED notPeers

\* Time passes (Date.now() is observed in steps of half the staleness period).
TickMs == StaleMs \div 2
Tick ==
    /\ now < MaxTicks * TickMs
    /\ now' = now + TickMs
    /\ UNCHANGED <<peers, staticIp, ops, lastOp, swept, manualReplaced, disk, heard, roundTrip, probed, routeRes, inflight>>
    /\ UNCHANGED notPeers

\* ------------------------------------------------------------- SpecPeers
\* The state when setupDiscovery() has bound the socket: no peers yet.
InitPeers ==
    /\ peers = <<>>
    /\ now = 0
    /\ staticIp \in StaticIps
    /\ ops = 0
    /\ lastOp = NoOp
    /\ swept = {}
    /\ manualReplaced = {}
    /\ disk = <<>>
    /\ heard = NeverHeard
    /\ roundTrip = NoTrip
    /\ probed = NoProbe
    /\ routeRes = NoRes
    /\ inflight = {}
    /\ AddonsIdle
    /\ TimingIdle
    /\ FanoutIdle
    /\ DiscIdle

NextPeers ==
    \/ \E m \in Datagrams : Datagram(m.json, m.type, m.id, m.name, m.port, m.addr)
    \/ Sweep
    \/ \E ip \in AddIps, name \in AddNames, port \in AddPorts : AddManual(ip, name, port)
    \/ \E id \in AllIds : Remove(id)
    \/ \E k \in DOMAIN peers, r \in ProbeResponses : CheckSettles(k, r)
    \/ Tick

SpecPeers == InitPeers /\ [][NextPeers]_vars

\* ---------------------------------------------------- probes in flight
\* A probe that writes the record it probed back as the whole registry.
Settled_Alone(ps, f, r, t) ==
    IF f.attached
    THEN <<CheckPeerStatus(ps[FindIndex(ps, f.id)], r, t).peer>>
    ELSE ps

\* A probe that puts the object it holds back into the registry when it is
\* no longer there.
Settled_Restores(ps, f, r, t) ==
    IF f.attached
    THEN [ps EXCEPT ![FindIndex(ps, f.id)] = CheckPeerStatus(@, r, t).peer]
    ELSE Append(Without(ps, f.id),
                [id |-> f.id, ip |-> f.id[1], port |-> f.id[2], name |-> "",
                 manual |-> FALSE, online |-> r.ok, lastSeen |-> Undef, lastChecked |-> t])

\* config.peers once the probe f has settled with r: checkPeerStatus writes
\* online, lastChecked and name into the object it was called with and never
\* into the array, so a probe whose object has left the array changes nothing.
Settled(ps, f, r, t) ==
    IF f.attached
    THEN [ps EXCEPT ![FindIndex(ps, f.id)] = CheckPeerStatus(@, r, t).peer]
    ELSE ps

\* checkPeerStatus(peer) is called for the k-th record (by checkAllPeers, by
\* the add route after its save, by the check route) and suspends in axios.get.
PollStart(k) ==
    /\ k \in DOMAIN peers
    /\ Cardinality(inflight) < MaxInflight
    /\ [id |-> peers[k].id, attached |-> TRUE] \notin inflight
    /\ inflight' = inflight \cup {[id |-> peers[k].id, attached |-> TRUE]}
    /\ UNCHANGED <<peers, now, staticIp, ops, lastOp, swept, manualReplaced, disk, heard,
                   roundTrip, probed, routeRes>>
    /\ UNCHANGED notPeers

\* axios.get of the probe f settles with r: the rest of checkPeerStatus runs.
PollSettles(f, r) ==
    /\ f \in inflight
    /\ inflight' = inflight \ {f}
    /\ peers' = Settled(peers, f, r, now)
    /\ lastOp' = [op |-> "poll", id |-> f.id, existed |-> f.attached]
    /\ roundTrip' = NoTrip
    /\ probed' = NoProbe
    /\ routeRes' = NoRes
    /\ swept' = {}
    /\ CountOp
    /\ UNCHANGED <<now, staticIp, manualReplaced, disk, heard>>
    /\ UNCHANGED notPeers

\* The announcements the writers are interleaved with.
PollDatagrams == {m \in Datagrams : Accepted(m.json, m.type, m.id) /\ m.name = "A"}

\* The peer registry with its writers and the probes in flight.
InitPoll == InitPeers /\ staticIp = ""

NextPoll ==
    \/ \E m \in PollDatagrams : Datagram(m.json, m.type, m.id, m.name, m.port, m.addr)
    \/ Sweep
    \/ \E ip \in AddIps, name \in AddNames, port \in AddPorts : AddManual(ip, name, port)
    \/ \E id \in AllIds : Remove(id)
    \/ \E k \in DOMAIN peers : PollStart(k)
    \/ \E f \in inflight, r \in {NoAnswer, Answer("object", "B")} : PollSettles(f, r)
    \/ Tick

SpecPoll == InitPoll /\ [][NextPoll]_vars

\* ------------------------------------------------------ discovery service
\* What a socket 'error' event leaves of the timers and of the host when no
\* 'error' listener is registered: the event is thrown and ends the process.
AfterSocketError_Unhandled(a) == [armed |-> {}, up |-> FALSE]

\* What a socket 'error' event leaves of the timers and of the host:
\* discoverySocket.on('error') logs the error and returns.
AfterSocketError(a) == [armed |-> a, up |-> TRUE]

\* bind() succeeds: the callback runs setBroadcast(true).
Listening ==
    /\ up
    /\ sock = "binding"
    /\ sock' = "bound"
    /\ UNCHANGED <<armed, quit, up>>
    /\ UNCHANGED <<addonVars, peerVars, timingVars, clientVars, serverVars, hopVars>>

\* The socket emits 'error': EADDRINUSE of the pending bind, or an error of a
\* later send, which leaves the socket bound.
SocketError ==
    /\ up
    /\ sock \in {"binding", "bound"}
    /\ sock' = IF sock = "binding" THEN "failed" ELSE sock
    /\ armed' = AfterSocketError(armed).armed
    /\ up' = AfterSocketError(armed).up
    /\ lastOp' = [NoOp EXCEPT !.op = "error"]
    /\ swept' = {}
    /\ roundTrip' = NoTrip
    /\ probed' = NoProbe
    /\ routeRes' = NoRes
    /\ inflight' = inflight
    /\ UNCHANGED <<quit, peers, now, staticIp, ops, manualReplaced, disk, heard>>
    /\ UNCHANGED <<addonVars, timingVars, clientVars, serverVars, hopVars>>

\* A datagram arrives at the bound socket.
Receive(m) ==
    /\ up
    /\ sock = "bound"
    /\ Datagram(m.json, m.type, m.id, m.name, m.port, m.addr)

\* The announce timer fires.  send() on a closed socket throws, which the
\* try/catch of the callback logs; on a socket whose bind is pending the
\* datagrams are queued; after a failed bind send() binds the socket anew and
\* the datagrams go out or not (goes).
AnnounceTimer(goes) ==
    /\ up
    /\ "announce" \in armed
    /\ sock = "closed" => ~goes
    /\ sock \in {"binding", "bound"} => goes
    /\ lastOp' = [NoOp EXCEPT !.op = IF goes THEN "sent" ELSE "notsent"]
    /\ swept' = {}
    /\ roundTrip' = NoTrip
    /\ probed' = NoProbe
    /\ routeRes' = NoRes
    /\ inflight' = inflight
    /\ CountOp
    /\ UNCHANGED <<peers, now, staticIp, manualReplaced, disk, heard>>
    /\ UNCHANGED notPeers

\* The sweep timer fires.
SweepTimer ==
    /\ up
    /\ "sweep" \in armed
    /\ Sweep

\* The process ends once the quit has gone through.
Exit ==
    /\ up
    /\ quit
    /\ up' = FALSE
    /\ armed' = {}
    /\ UNCHANGED <<sock, quit>>
    /\ UNCHANGED <<addonVars, peerVars, timingVars, clientVars, serverVars, hopVars>>

\* The application is started again: loadConfig() replaces the default
\* configuration by the keys of config.json, `peers` among them, and
\* setupDiscovery() runs.
Restart ==
    /\ ~up
    /\ up' = TRUE
    /\ quit' = FALSE
    /\ sock' = "binding"
    /\ armed' = DiscoveryTimers
    /\ peers' = disk
    /\ lastOp' = [NoOp EXCEPT !.op = "restart"]
    /\ heard' = [id \in AllIds |-> IF FindIndex(disk, id) # 0 THEN heard[id] ELSE Undef]
    /\ swept' = {}
    /\ roundTrip' = NoTrip
    /\ probed' = NoProbe
    /\ routeRes' = NoRes
    /\ inflight' = {}
    /\ UNCHANGED <<now, staticIp, ops, manualReplaced, disk>>
    /\ UNCHANGED <<addonVars, timingVars, clientVars, serverVars, hopVars>>

\* POST /api/peers/add while the host runs.
AddRoute(ip, name, port) == up /\ AddManual(ip, name, port)

\* DELETE /api/peers/:id while the host runs.
RemoveRoute(id) == up /\ Remove(id)

\* GET /api/peers/check/:id while the host runs, r being what the probe of a
\* record that was found settles with.
CheckRoute(id, r) ==
    /\ up
    /\ IF FindIndex(peers, id) # 0
       THEN CheckSettles(FindIndex(peers, id), r)
       ELSE r = NoAnswer /\ CheckUnknown(id)

\* Time passes while the host runs; the quit goes through within one tick.
Clock == up /\ ~quit /\ Tick

\* setupDiscovery() has returned: bind is pending, both timers are armed.
InitDiscovery ==
    /\ peers = <<>>
    /\ now = 0
    /\ staticIp = ""
    /\ ops = 0
    /\ lastOp = NoOp
    /\ swept = {}
    /\ manualReplaced = {}
    /\ disk = <<>>
    /\ heard = NeverHeard
    /\ roundTrip = NoTrip
    /\ probed = NoProbe
    /\ routeRes = NoRes
    /\ inflight = {}
    /\ sock = "binding"
    /\ armed = DiscoveryTimers
    /\ quit = FALSE
    /\ up = TRUE
    /\ AddonsIdle
    /\ TimingIdle
    /\ FanoutIdle

NextDiscovery ==
    \/ Listening
    \/ SocketError
    \/ \E m \in Datagrams : Receive(m)
    \/ \E goes \in BOOLEAN : AnnounceTimer(goes)
    \/ SweepTimer
    \/ \E thr \in SUBSET StopSet(entries, objEnabled) : BeforeQuit(thr)
    \/ Exit
    \/ Restart
    \/ \E ip \in AddIps, name \in AddNames, port \in AddPorts : AddRoute(ip, name, port)
    \/ Clock

SpecDiscovery == InitDiscovery /\ [][NextDiscovery]_vars

\* ------------------------------------------------------------ SpecRoutes
\* The peer routes of the config server on a host whose discovery socket is
\* bound: the operator adds, removes and checks peers by id.
InitRoutes == InitPeers

NextRoutes ==
    \/ \E ip \in AddIps, name \in AddNames, port \in AddPorts : AddRoute(ip, name, port)
    \/ \E id \in AllIds : RemoveRoute(id)
    \/ \E id \in AllIds, r \in ProbeResponses : CheckRoute(id, r)
    \/ Clock

SpecRoutes == InitRoutes /\ [][NextRoutes]_vars

\* ------------------------------------------------------ discovery timers
\* The remote instance whose announcements are followed.
RemoteAddr == "10.0.0.5"
RemotePort == 3001
RemoteId == PeerId(RemoteAddr, RemotePort)

\* The sweep timer is due at `now`.
SweepDue == now > 0 /\ (now - sweepPhase) % SweepMs = 0

\* The announcement the remote instance sends at `now` arrives and is handled
\* by discoverySocket.on('message').
AnnounceArrives(name) ==
    /\ ~annDone
    /\ annDone' = TRUE
    /\ lostRun' = 0
    /\ seen' = TRUE
    /\ peers' = Upsert(peers, name, RemotePort, RemoteAddr, now)
    /\ UNCHANGED <<now, sweepDone, sweepPhase>>
    /\ UNCHANGED notTiming

\* The announcement the remote instance sends at `now` is lost.
AnnounceLost ==
    /\ ~annDone
    /\ lostRun < MaxLost
    /\ annDone' = TRUE
    /\ lostRun' = lostRun + 1
    /\ UNCHANGED <<peers, now, sweepDone, sweepPhase, seen>>
    /\ UNCHANGED notTiming

\* The sweep timer fires at `now`.
SweepFires ==
    /\ SweepDue
    /\ ~sweepDone
    /\ sweepDone' = TRUE
    /\ peers' = SelectSeq(peers, LAMBDA p : Keep(p, now))
    /\ UNCHANGED <<now, lostRun, annDone, sweepPhase, seen>>
    /\ UNCHANGED notTiming

\* checkPeerStatus settles for the remote peer's record (checkAllPeers timer).
ProbeSettles(ok) ==
    /\ WithId(peers, RemoteId) # {}
    /\ peers' = [k \in DOMAIN peers |->
                    IF peers[k].id = RemoteId
                    THEN [peers[k] EXCEPT !.online = ok, !.lastChecked = now]
                    ELSE peers[k]]
    /\ peers' # peers
    /\ UNCHANGED <<now, lostRun, annDone, sweepDone, sweepPhase, seen>>
    /\ UNCHANGED notTiming

\* One announce period passes, once the timers due at `now` have run.
PeriodPasses ==
    /\ annDone
    /\ SweepDue => sweepDone
    /\ now < MaxPeriods * AnnounceMs
    /\ now' = now + AnnounceMs
    /\ annDone' = FALSE
    /\ sweepDone' = FALSE
    /\ UNCHANGED <<peers, lostRun, sweepPhase, seen>>
    /\ UNCHANGED notTiming

\* setupDiscovery() has armed the timers; the remote instance announces every
\* AnnounceMs from time 0 on.
InitTiming ==
    /\ peers = <<>>
    /\ now = 0
    /\ staticIp = ""
    /\ ops = 0
    /\ lastOp = NoOp
    /\ swept = {}
    /\ manualReplaced = {}
    /\ disk = <<>>
    /\ heard = NeverHeard
    /\ roundTrip = NoTrip
    /\ probed = NoProbe
    /\ routeRes = NoRes
    /\ inflight = {}
    /\ lostRun = 0
    /\ annDone = FALSE
    /\ sweepDone = FALSE
    /\ sweepPhase \in {0, AnnounceMs}
    /\ seen = FALSE
    /\ AddonsIdle
    /\ FanoutIdle
    /\ DiscIdle

NextTiming ==
    \/ \E name \in Names : AnnounceArrives(name)
    \/ AnnounceLost
    \/ SweepFires
    \/ \E ok \in BOOLEAN : ProbeSettles(ok)
    \/ PeriodPasses

SpecTiming == InitTiming /\ [][NextTiming]_vars

\* ------------------------------------------------------- client fan-out
\* A loop that looks every device id up in the peers array, 'current' too.
Eligible_Lookup(d) == IF d = Current THEN FALSE ELSE cpeers[d] = "online"

\* if (deviceId !== 'current') { peer = peers.find(...); if (!peer ||
\* !peer.online) { failCount++; continue; } }
Eligible(d) == IF d = Current THEN TRUE ELSE cpeers[d] = "online"

\* let apiUrl = endpoint; if (deviceId !== 'current') { ... apiUrl =
\* `http://${peer.ip}:${peer.port}${endpoint}`; }
ResolveUrl(d) == IF d = Current THEN LocalUrl ELSE Http(caddr[d][1], caddr[d][2])

\* The position at which the for...of loop, resumed at position i of the
\* Set, reaches its next fetch: the devices before it are skipped as failures.
RECURSIVE LoopFrom(_, _)
LoopFrom(sel, i) ==
    IF i > Len(sel) THEN i
    ELSE IF Eligible(sel[i]) THEN i
    ELSE LoopFrom(sel, i + 1)

\* A final message that reports a failure as soon as one target failed.
Message_AllOrNothing(s, f) == IF s > 0 /\ f = 0 THEN "success" ELSE "failed"

\* The message at the end of the loop.
Message(s, f) ==
    IF s > 0 /\ f = 0 THEN "success"
    ELSE IF s > 0 /\ f > 0 THEN "partial"
    ELSE "failed"

\* The loop runs on from position i with the counters s and f, up to its next
\* await or to the final message.
Continue(i, s, f, cnt) ==
    LET j == LoopFrom(selectedDevices, i)
        skipped == {selectedDevices[k] : k \in i..(j - 1)}
        f2 == f + (j - i)
    IN  /\ it' = j
        /\ successCount' = s
        /\ failCount' = f2
        /\ counted' = [t \in Targets |-> IF t \in skipped THEN cnt[t] + 1 ELSE cnt[t]]
        /\ IF j > Len(selectedDevices)
           THEN /\ fpc' = "done"
                /\ report' = Message(s, f2)
                /\ deviceId' = NoDevice
                /\ UNCHANGED <<issued, cOfflineIssued, url>>
           ELSE /\ fpc' = "await"
                /\ report' = report
                /\ deviceId' = selectedDevices[j]
                /\ issued' = issued \cup {selectedDevices[j]}
                /\ url' = [url EXCEPT ![selectedDevices[j]] = ResolveUrl(selectedDevices[j])]
                /\ cOfflineIssued' =
                     IF selectedDevices[j] = Current THEN cOfflineIssued
                     ELSE IF cpeers[selectedDevices[j]] = "online" THEN cOfflineIssued
                     ELSE cOfflineIssued \cup {selectedDevices[j]}

\* An early return of the function, with the message it shows (if any).
Return(msg) ==
    /\ fpc' = "returned"
    /\ report' = msg
    /\ UNCHANGED <<it, deviceId, successCount, failCount, issued, counted, cOfflineIssued, url>>

\* saveToDevices(endpoint, data, settingName), handleFiles(files) or
\* uploadUpdate() is called, and runs up to its first await.  hasFile and
\* confirmed are the file input and the answer to confirm() of uploadUpdate.
StartFanout(op, hasFile, confirmed) ==
    /\ fpc = "idle"
    /\ spc = "idle"
    /\ op = "uploadUpdate" \/ (hasFile /\ confirmed)
    /\ fop' = op
    /\ T0' = {selectedDevices[k] : k \in DOMAIN selectedDevices}
    /\ IF op = "uploadUpdate" /\ ~hasFile THEN Return("rejected")
       ELSE IF op = "saveToDevices" /\ editingDeviceId # NoDevice
       THEN /\ fpc' = "edit_await"
            /\ deviceId' = editingDeviceId
            /\ issued' = issued \cup {editingDeviceId}
            /\ UNCHANGED <<it, successCount, failCount, report, counted, cOfflineIssued, url>>
       ELSE IF Len(selectedDevices) = 0 THEN Return("rejected")
       ELSE IF op = "uploadUpdate" /\ ~confirmed THEN Return("none")
       ELSE Continue(1, 0, 0, counted)
    /\ UNCHANGED <<selectedDevices, editingDeviceId, cpeers, caddr, hangs, toggles, okAnswered, errlog>>
    /\ UNCHANGED notClient

\* The awaited fetch of the loop settles: a response ("2xx" or "non2xx") or a
\* rejection ("error": connection refused, network error).
Respond(outcome) ==
    /\ fpc = "await"
    /\ deviceId \notin hangs
    /\ okAnswered' = IF outcome = "2xx" THEN okAnswered \cup {deviceId} ELSE okAnswered
    /\ errlog' = IF outcome = "error" THEN errlog \cup {deviceId} ELSE errlog
    /\ Continue(it + 1,
                IF outcome = "2xx" THEN successCount + 1 ELSE successCount,
                IF outcome = "2xx" THEN failCount ELSE failCount + 1,
                [counted EXCEPT ![deviceId] = @ + 1])
    /\ UNCHANGED <<selectedDevices, editingDeviceId, cpeers, caddr, fop, hangs, toggles, T0>>
    /\ UNCHANGED notClient

\* setTimeout(() => controller.abort(), 30000) of uploadUpdate fires: the
\* fetch rejects and the catch block counts a failure.
Timeout ==
    /\ fpc = "await"
    /\ fop = "uploadUpdate"
    /\ errlog' = errlog \cup {deviceId}
    /\ Continue(it + 1, successCount, failCount + 1, [counted EXCEPT ![deviceId] = @ + 1])
    /\ UNCHANGED <<selectedDevices, editingDeviceId, cpeers, caddr, fop, hangs, toggles, T0, okAnswered>>
    /\ UNCHANGED notClient

\* The fetch of the editing branch of saveToDevices settles.
EditSettles(ok) ==
    /\ fpc = "edit_await"
    /\ deviceId \notin hangs
    /\ fpc' = "edit_done"
    /\ report' = IF ok THEN "success" ELSE "failed"
    /\ deviceId' = NoDevice
    /\ UNCHANGED <<selectedDevices, editingDeviceId, cpeers, caddr, url, fop, it, successCount,
                   failCount, hangs, toggles, T0, issued, counted, okAnswered, errlog, cOfflineIssued>>
    /\ UNCHANGED notClient

\* The position of device d in the Set, 0 for none.
Position(sel, d) ==
    IF \E k \in DOMAIN sel : sel[k] = d THEN CHOOSE k \in DOMAIN sel : sel[k] = d ELSE 0

\* A click on the checkbox of device d while a request is awaited (the checkbox
\* of an offline peer is disabled): selectedDevices.add or .delete.  A deleted
\* entry the iterator has passed moves the iterator with it.
Toggle(d) ==
    /\ fpc = "await"
    /\ toggles < MaxToggles
    /\ Eligible(d)
    /\ toggles' = toggles + 1
    /\ LET k == Position(selectedDevices, d)
       IN  IF k = 0
           THEN /\ selectedDevices' = Append(selectedDevices, d)
                /\ it' = it
           ELSE /\ selectedDevices' = SelectSeq(selectedDevices, LAMBDA x : x # d)
                /\ it' = IF k <= it THEN it - 1 ELSE it
    /\ UNCHANGED <<editingDeviceId, cpeers, caddr, url, fop, fpc, deviceId, successCount, failCount, report,
                   hangs, T0, issued, counted, okAnswered, errlog, cOfflineIssued>>
    /\ UNCHANGED notClient

\* loadPeers(): peers = await response.json() of GET /api/peers.
LoadPeers ==
    /\ cpeers # Snapshot(peers)
    /\ cpeers' = Snapshot(peers)
    /\ caddr' = Addresses(peers)
    /\ UNCHANGED <<selectedDevices, editingDeviceId, url, fop, fpc, it, deviceId, successCount,
                   failCount, report, hangs, toggles, T0, issued, counted, okAnswered, errlog,
                   cOfflineIssued>>
    /\ UNCHANGED notClient

\* ------------------------------------- server-side distribution to all peers
\* The index of the first peer from k on that the loop does not skip
\* (if (!peer.online) continue), Len(ps) + 1 for none.
RECURSIVE NextOnline(_, _)
NextOnline(ps, k) ==
    IF k > Len(ps) THEN k
    ELSE IF ps[k].online THEN k
    ELSE NextOnline(ps, k + 1)

\* The loops of the distribution run on after the file sfile of peer sidx: the
\* next file of the same peer (media), or the first file of the next peer whose
\* record is online.
Advance ==
    IF sfile < sfiles
    THEN /\ sfile' = sfile + 1
         /\ spc' = "read"
         /\ sidx' = sidx
    ELSE LET j == NextOnline(peers, sidx + 1)
         IN  /\ sidx' = j
             /\ sfile' = IF j > Len(peers) THEN sfile ELSE 1
             /\ spc' = IF j > Len(peers) THEN "done" ELSE "read"

\* POST /api/media/upload or POST /api/update with target 'all' reaches the
\* distribution loop, which runs up to its first await fs.readFile.  n is the
\* number of uploaded files.
StartDistribute(op, n) ==
    /\ spc = "idle"
    /\ fpc = "idle"
    /\ op = "media" \/ n = 1
    /\ sop' = op
    /\ sfiles' = n
    /\ LET j == NextOnline(peers, 1)
       IN  /\ sidx' = j
           /\ sfile' = IF j > Len(peers) THEN 0 ELSE 1
           /\ spc' = IF j > Len(peers) THEN "done" ELSE "read"
    /\ UNCHANGED <<sissued, sOfflineIssued, peers>>
    /\ UNCHANGED notServer

\* await fs.readFile(...) settles: the POST to the peer is started, or the
\* catch block logs the error.
ReadSettles(ok) ==
    /\ spc = "read"
    /\ IF ok
       THEN /\ spc' = "post"
            /\ sissued' = sissued \cup {peers[sidx].id}
            /\ sOfflineIssued' = IF peers[sidx].online THEN sOfflineIssued
                                 ELSE sOfflineIssued \cup {peers[sidx].id}
            /\ UNCHANGED <<sidx, sfile>>
       ELSE /\ Advance
            /\ UNCHANGED <<sissued, sOfflineIssued>>
    /\ UNCHANGED <<sop, sfiles, peers>>
    /\ UNCHANGED notServer

\* await axios.post(..., { timeout }) settles: a response, an error or the
\* timeout; the outcome is only logged.
PostSettles ==
    /\ spc = "post"
    /\ Advance
    /\ UNCHANGED <<sop, sfiles, sissued, sOfflineIssued, peers>>
    /\ UNCHANGED notServer

\* ------------------------------------------------------------- SpecFanout
\* A discovered record as an announcement at time 0 left it.
Discovered(id, online) ==
    [id |-> id, ip |-> id[1], port |-> id[2], name |-> "A", manual |-> FALSE,
     online |-> online, lastSeen |-> 0, lastChecked |-> Undef]

\* The registries and the selections a fan-out may start from.
FanPeers ==
    {<<Discovered(PeerA, a)>> : a \in BOOLEAN}
    \cup {<<Discovered(PeerA, a), Discovered(PeerB, b)>> : a, b \in BOOLEAN}
Selections ==
    {<<>>, <<Current>>, <<PeerA>>, <<PeerB>>, <<Current, PeerA>>, <<Current, PeerB>>,
     <<PeerA, PeerB>>, <<Current, PeerA, PeerB>>}

\* The admin page is loaded and has fetched the peers; no operation runs.
InitFanout ==
    /\ peers \in FanPeers
    /\ now = 0
    /\ staticIp = ""
    /\ ops = 0
    /\ lastOp = NoOp
    /\ swept = {}
    /\ manualReplaced = {}
    /\ disk = <<>>
    /\ heard = [id \in AllIds |-> IF FindIndex(peers, id) # 0 THEN 0 ELSE Undef]
    /\ roundTrip = NoTrip
    /\ probed = NoProbe
    /\ routeRes = NoRes
    /\ inflight = {}
    /\ selectedDevices \in Selections
    /\ editingDeviceId \in {NoDevice, PeerA}
    /\ cpeers = Snapshot(peers)
    /\ caddr = Addresses(peers)
    /\ url = [t \in Targets |-> NoUrl]
    /\ fop = "none"
    /\ fpc = "idle"
    /\ it = 0
    /\ deviceId = NoDevice
    /\ successCount = 0
    /\ failCount = 0
    /\ report = "none"
    /\ hangs \in {{}, {PeerA}}
    /\ toggles = 0
    /\ T0 = {}
    /\ issued = {}
    /\ counted = [t \in Targets |-> 0]
    /\ okAnswered = {}
    /\ errlog = {}
    /\ cOfflineIssued = {}
    /\ sop = "none"
    /\ spc = "idle"
    /\ sidx = 0
    /\ sfile = 0
    /\ sfiles = 0
    /\ sissued = {}
    /\ sOfflineIssued = {}
    /\ HopIdle
    /\ AddonsIdle
    /\ TimingIdle
    /\ DiscIdle

FanOps == {"saveToDevices", "handleFiles", "uploadUpdate"}

\* checkPeerStatus(peer) of the periodic checkAllPeers settles while a fan-out
\* or a distribution awaits (the flags it may find before are in FanPeers).
Probe(k, ok) ==
    /\ fpc = "await" \/ spc \in {"read", "post"}
    /\ CheckSettles(k, IF ok THEN Answer("object", "") ELSE NoAnswer)

NextFanout ==
    \/ \E op \in FanOps, hasFile \in BOOLEAN, confirmed \in BOOLEAN : StartFanout(op, hasFile, confirmed)
    \/ \E outcome \in {"2xx", "non2xx", "error"} : Respond(outcome)
    \/ Timeout
    \/ \E ok \in BOOLEAN : EditSettles(ok)
    \/ \E d \in Targets : Toggle(d)
    \/ LoadPeers
    \/ \E op \in {"media", "update"}, n \in 1..MaxFiles : StartDistribute(op, n)
    \/ \E ok \in BOOLEAN : ReadSettles(ok)
    \/ PostSettles
    \/ \E k \in DOMAIN peers, ok \in BOOLEAN : Probe(k, ok)

SpecFanout == InitFanout /\ [][NextFanout]_vars

\* The event loop runs every continuation that is ready: a response that
\* arrives is handled, a timer that is armed fires.  A fetch to a device that
\* never responds, issued without an abort timer, has no continuation: the
\* function stays at that await.
SpecFanoutFair ==
    /\ SpecFanout
    /\ WF_vars(\E outcome \in {"2xx", "non2xx", "error"} : Respond(outcome))
    /\ WF_vars(Timeout)
    /\ WF_vars(\E ok \in BOOLEAN : EditSettles(ok))


\* ------------------------------------------- several instances, one network
\* Every instance runs the same main.js and holds the others in config.peers,
\* in this order.
HopOrder == <<"X", "Y", "Z">>
HopList(i) == SelectSeq(HopOrder, LAMBDA j : j # i)

\* The index of the first peer of config.peers of i from k on that the loop
\* does not skip (if (!peer.online) continue), Len + 1 for none.
RECURSIVE NextListed(_, _)
NextListed(i, k) ==
    IF k > Len(HopList(i)) THEN k
    ELSE IF HopList(i)[k] \in honline[i] THEN k
    ELSE NextListed(i, k + 1)

\* The loop of the upload handler of i goes on with the peers from index k on.
DistAfter(i, item, k) ==
    LET j == NextListed(i, k)
    IN  IF j > Len(HopList(i)) THEN NoDist
        ELSE [item |-> item, idx |-> j, st |-> "read"]

\* After the loop of POST /api/update, updateManager.processUpdate schedules
\* the update script and process.exit(0).
ExitsAfter(item, nd) == nd = NoDist /\ item.op = "update"

\* The POST of instance i that is awaited by its distribution loop.
Awaited(i) ==
    [from |-> i, to |-> HopList(i)[hdist[i].idx], item |-> hdist[i].item]

\* The awaited axios.post of the sender of m settles (a response or an error,
\* both only logged): its loop goes on.  The sender may have exited meanwhile.
SenderGoesOn(m) ==
    /\ m.from \notin hdown
    /\ hdist[m.from].st = "post"
    /\ Awaited(m.from) = m

\* A receive handler that forwards what it received to the online peers of
\* its own instance, as the upload handlers do for target 'all'.
Forwarded_All(j, item) ==
    {[from |-> j, to |-> k, item |-> item] : k \in honline[j]}

\* The POSTs to other instances a receive handler starts for the item it
\* received: /api/media/receive writes the file and notifies the displays,
\* /api/update/receive writes the update and its script; neither calls axios.
Forwarded(j, item) == {}

\* POST /api/media/upload or POST /api/update on instance i, from its admin
\* page: the file is stored and, for target 'all', the distribution loop runs
\* up to its first await.
HopUpload(i, op, target) ==
    /\ i \notin hdown
    /\ hdist[i] = NoDist
    /\ huploads < MaxUploads
    /\ huploads' = huploads + 1
    /\ LET item == [origin |-> i, op |-> op, n |-> huploads + 1]
           nd == IF target = "all" THEN DistAfter(i, item, 1) ELSE NoDist
       IN  /\ hheld' = [hheld EXCEPT ![i] = @ \cup {item}]
           /\ hdist' = [hdist EXCEPT ![i] = nd]
           /\ hdown' = IF ExitsAfter(item, nd) THEN hdown \cup {i} ELSE hdown
    /\ UNCHANGED <<honline, hwire, hsends>>
    /\ UNCHANGED notHop

\* await fs.readFile(...) of the loop of i settles: the POST to the peer's
\* receive endpoint is started, or the catch block logs the error.
HopRead(i, ok) ==
    /\ i \notin hdown
    /\ hdist[i].st = "read"
    /\ IF ok
       THEN /\ hwire' = hwire \cup {Awaited(i)}
            /\ hsends' = hsends (+) SetToBag({Awaited(i)})
            /\ hdist' = [hdist EXCEPT ![i].st = "post"]
            /\ hdown' = hdown
       ELSE LET nd == DistAfter(i, hdist[i].item, hdist[i].idx + 1)
            IN  /\ hdist' = [hdist EXCEPT ![i] = nd]
                /\ hdown' = IF ExitsAfter(hdist[i].item, nd) THEN hdown \cup {i} ELSE hdown
                /\ UNCHANGED <<hwire, hsends>>
    /\ UNCHANGED <<honline, hheld, huploads>>
    /\ UNCHANGED notHop

\* POST /api/media/receive or POST /api/update/receive on instance m.to: auth
\* answers 401 for a wrong password; otherwise the handler stores the item and
\* answers, and the update route exits the application (app.exit(0)).  The
\* answer settles the sender's axios.post.
HopReceive(m, ok) ==
    /\ m \in hwire
    /\ m.to \notin hdown
    /\ LET exits == ok /\ m.item.op = "update"
           fwd == IF ok THEN Forwarded(m.to, m.item) ELSE {}
           nd == DistAfter(m.from, m.item, hdist[m.from].idx + 1)
       IN  /\ hheld' = [hheld EXCEPT ![m.to] = IF ok THEN @ \cup {m.item} ELSE @]
           /\ hwire' = (hwire \ {m}) \cup fwd
           /\ hsends' = hsends (+) SetToBag(fwd)
           /\ hdist' = [hdist EXCEPT ![m.to] = IF exits THEN NoDist ELSE @,
                                     ![m.from] = IF SenderGoesOn(m) THEN nd ELSE @]
           /\ hdown' = hdown \cup (IF exits THEN {m.to} ELSE {})
                             \cup (IF SenderGoesOn(m) /\ ExitsAfter(m.item, nd)
                                   THEN {m.from} ELSE {})
    /\ UNCHANGED <<honline, huploads>>
    /\ UNCHANGED notHop

\* A POST to an instance that is not running fails (connection refused); the
\* catch block of the sender logs it.
HopRefused(m) ==
    /\ m \in hwire
    /\ m.to \in hdown
    /\ hwire' = hwire \ {m}
    /\ LET nd == DistAfter(m.from, m.item, hdist[m.from].idx + 1)
       IN  /\ hdist' = [hdist EXCEPT ![m.from] = IF SenderGoesOn(m) THEN nd ELSE @]
           /\ hdown' = IF SenderGoesOn(m) /\ ExitsAfter(m.item, nd)
                       THEN hdown \cup {m.from} ELSE hdown
    /\ UNCHANGED <<honline, hheld, huploads, hsends>>
    /\ UNCHANGED notHop

\* The application of instance i is closed (app.quit): its handlers end with
\* the process.
HopQuit(i) ==
    /\ i \notin hdown
    /\ hdown' = hdown \cup {i}
    /\ hdist' = [hdist EXCEPT ![i] = NoDist]
    /\ UNCHANGED <<honline, hheld, hwire, huploads, hsends>>
    /\ UNCHANGED notHop

\* The update script, or the user, starts the application again.
HopRelaunch(i) ==
    /\ i \in hdown
    /\ hdown' = hdown \ {i}
    /\ UNCHANGED <<honline, hheld, hdist, hwire, huploads, hsends>>
    /\ UNCHANGED notHop

\* Every instance holds the others in config.peers, each record with the
\* online flag discovery and the liveness poll left it with; nothing was
\* uploaded yet.
InitHop ==
    /\ honline \in [HopInstances -> SUBSET HopInstances]
    /\ \A i \in HopInstances : i \notin honline[i]
    /\ hheld = [i \in HopInstances |-> {}]
    /\ hdist = [i \in HopInstances |-> NoDist]
    /\ hwire = {}
    /\ hdown = {}
    /\ huploads = 0
    /\ hsends = EmptyBag
    /\ AddonsIdle
    /\ PeersIdle
    /\ TimingIdle
    /\ DiscIdle
    /\ selectedDevices = <<Current>>
    /\ editingDeviceId = NoDevice
    /\ cpeers = Snapshot(<<>>)
    /\ caddr = Addresses(<<>>)
    /\ url = [t \in Targets |-> NoUrl]
    /\ fop = "none"
    /\ fpc = "idle"
    /\ it = 0
    /\ deviceId = NoDevice
    /\ successCount = 0
    /\ failCount = 0
    /\ report = "none"
    /\ hangs = {}
    /\ toggles = 0
    /\ T0 = {}
    /\ issued = {}
    /\ counted = [t \in Targets |-> 0]
    /\ okAnswered = {}
    /\ errlog = {}
    /\ cOfflineIssued = {}
    /\ sop = "none"
    /\ spc = "idle"
    /\ sidx = 0
    /\ sfile = 0
    /\ sfiles = 0
    /\ sissued = {}
    /\ sOfflineIssued = {}

NextHop ==
    \/ \E i \in HopInstances, op \in {"media", "update"}, target \in {"local", "all"} :
          HopUpload(i, op, target)
    \/ \E i \in HopInstances, ok \in BOOLEAN : HopRead(i, ok)
    \/ \E m \in hwire, ok \in BOOLEAN : HopReceive(m, ok)
    \/ \E m \in hwire : HopRefused(m)
    \/ \E i \in HopInstances : HopQuit(i)
    \/ \E i \in HopInstances : HopRelaunch(i)
SpecHop == InitHop /\ [][NextHop]_vars

\* ------------------------------------------------------- addon claims
\* The live objects of addon id a: init invoked, no stop invoked since.
LiveObjs(a) == {o \in ObjIds : live[o] /\ objAddon[o] = a}

\* C1: lifecycle hooks of one addon id are never interleaved: no hook (init,
\* stop, updateConfig) of an addon is invoked while another hook of the same
\* addon id is still executing, and init is never invoked twice for an addon id
\* without a stop in between.
C1_HooksSerialized ==
    /\ ~overlap
    /\ \A a \in AddonIds : Cardinality(InitHandlers(a)) <= 1
    /\ \A a \in AddonIds : initsSinceStop[a] <= 1

\* C2: in every reachable state at most one instance per addon id is live (init
\* invoked, no later stop).  (The second half of the claim, that init is never
\* invoked on an object that has left the Map, holds of every init call site:
\* each invokes init in the step that looked the object up or registered it.)
C2_OneLiveInstance ==
    \A a \in AddonIds : Cardinality(LiveObjs(a)) <= 1

\* C3: reload is all-or-nothing: when the reload has answered and its scan of
\* the addon directory failed, the addons registered (and running) before it
\* are still registered (and running); otherwise none of the previous objects
\* is left in the registry.
C3_ReloadAllOrNothing ==
    \A p \in Requests :
        (kind[p] = "reload" /\ pc[p] = "done") =>
            IF scanFailed[p]
            THEN /\ Registered(entries) = preReload[p]
                 /\ \A o \in preLive[p] : live[o]
            ELSE Registered(entries) \cap preReload[p] = {}

\* ------------------------------------------------------- registry claims
\* The announcements of other instances.
Announcements == {m \in Datagrams : m.json /\ m.type = "announce" /\ m.id # DisplayName}

\* C13: an updateAddonConfig call with enabled: false on a running addon invokes
\* that addon's stop hook exactly once and its init hook not at all, and from
\* then on no update and no reload invokes init for that addon id until an
\* update carries enabled: true.
C13_DisableStopsOnce ==
    /\ \A p \in Requests :
          (kind[p] = "update" /\ req[p].e = "false" /\ req[p].running)
              => hooks[p] = [stop |-> 1, init |-> 0]
    /\ ~initWhileOff

\* An update disabled a running addon, a later reload registered a new object
\* for it, every handler has finished, and the addon is still disabled.
C13_Witness ==
    \E p \in Requests :
        /\ kind[p] = "update" /\ pc[p] = "done"
        /\ \A q \in Requests : pc[q] \in {"idle", "done"}
        /\ pobj[p] # 0
        /\ offSince[objAddon[pobj[p]]]
        /\ MapGet(entries, objAddon[pobj[p]]) > pobj[p]
        /\ ~objEnabled[MapGet(entries, objAddon[pobj[p]])]

\* C14: whenever the registry holds an addon with enabled = false and no handler
\* is inside a lifecycle hook of that addon id, the registered instance is
\* stopped: init was not invoked on it since its last stop, and none of the
\* four timer fields of a scheduled-restart instance holds a running timer.
C14_DisabledIsStopped ==
    \A a \in AddonIds :
        LET o == MapGet(entries, a)
        IN  (o # 0 /\ ~objEnabled[o] /\ InitHandlers(a) = {})
                => (~live[o] /\ timers[o] \cap TimerFields = {})

\* The scheduled-restart addon ran, an update disabled it, and every handler
\* has finished.
C14_Witness ==
    /\ \A p \in Requests : kind[p] = "update" /\ pc[p] = "done"
    /\ offSince["restart"]
    /\ MapGet(entries, "restart") # 0
    /\ instEnabled[MapGet(entries, "restart")] = FALSE
    /\ ~objEnabled[MapGet(entries, "restart")]

\* C15 as stated: checkPeerStatus resolves to a boolean; a successful probe
\* gives true with online = true, lastChecked set and the name refreshed when a
\* displayName is reported; a failure, a timeout or a malformed response (a
\* body that is not JSON, or the JSON value null) gives false with online = false.
C15_ProbeAsClaimed ==
    probed.stage = "settled" =>
        LET p == peers[probed.k]
            r == probed.r
        IN  /\ probed.ret \in BOOLEAN
            /\ (r.ok /\ r.body = "object") =>
                  /\ probed.ret /\ p.online /\ p.lastChecked = probed.at
                  /\ p.name = IF r.name # "" THEN r.name ELSE probed.name
            /\ (~r.ok \/ r.body \in {"text", "null"}) => (~probed.ret /\ ~p.online)

\* C15, amended: checkPeerStatus resolves to a boolean; every 2xx response whose
\* body is not the JSON value null gives true with online = true and
\* lastChecked set, the name being refreshed only by a displayName of a JSON
\* object; a rejected request or a null body gives false with online = false.
C15_ProbeSettled ==
    probed.stage = "settled" =>
        LET p == peers[probed.k]
            r == probed.r
        IN  /\ probed.ret \in BOOLEAN
            /\ (r.ok /\ r.body # "null") =>
                  /\ probed.ret /\ p.online /\ p.lastChecked = probed.at
                  /\ p.name = IF r.body = "object" /\ r.name # "" THEN r.name ELSE probed.name
            /\ (~r.ok \/ r.body = "null") => (~probed.ret /\ ~p.online)

\* A probe settled, after time had passed, on a 2xx response whose body is not JSON.
C15_Witness ==
    /\ probed.stage = "settled"
    /\ probed.r = Answer("text", "")
    /\ peers[probed.k].lastChecked = probed.at
    /\ probed.at > 0

\* No handler is running, and the only one that ran after the startup scan, if
\* any, was one reload.
Quiet ==
    /\ pc[Boot] = "done"
    /\ pc[1] \in {"idle", "done"} /\ kind[1] # "update"
    /\ \A p \in Requests \ {1} : pc[p] = "idle"

\* The readdir of the last loadAddons run failed.
LastScanFailed == IF pc[1] = "done" THEN scanFailed[1] ELSE scanFailed[Boot]

\* The module of addon file a lacks info, info.name or info.version.
LacksField(a) == ~manifests[a].info \/ ~manifests[a].name \/ ~manifests[a].version

C17_InvalidManifestSkipped ==
    /\ \A a \in AddonIds : LacksField(a) => MapGet(entries, a) = 0
    /\ (Quiet /\ ~LastScanFailed) =>
          \A a \in AddonIds : ~LacksField(a) => MapGet(entries, a) # 0

\* A scan has completed over a directory whose second file lacks info.version:
\* that file is not registered, the file after it is.
C17_Witness ==
    /\ Quiet /\ ~LastScanFailed
    /\ manifests["broken"].info /\ ~manifests["broken"].version
    /\ MapGet(entries, "broken") = 0
    /\ MapGet(entries, "restart") # 0

\* The addons Map has no entry for id a.
Unregistered(a) == \A k \in DOMAIN entries : entries[k].id # a \/ entries[k].obj = 0

\* The step in which the config route starts serving handler p for addon id a.
UpdateServed(p, a) ==
    /\ pc[p] = "idle" /\ pc'[p] # "idle" /\ kind'[p] = "update"
    /\ \/ reply'[p] = NotFound(a)
       \/ req'[p].id = a

\* C18: an updateAddonConfig call for an id the registry does not hold is
\* answered with the not-found error, and it leaves the registry, config.addons,
\* the config file, every instance and its timers as they were, invokes no hook
\* and broadcasts no addons-update.
C18_UnknownIdChangesNothing ==
    [][\A p \in Requests, a \in AddonIds :
          (UpdateServed(p, a) /\ Unregistered(a)) =>
              /\ reply'[p] = NotFound(a) /\ pc'[p] = "done"
              /\ UNCHANGED <<entries, objAddon, objEnabled, objCfg, cfgAddons, instEnabled,
                             timers, restartCmd, live, initsSinceStop, hooks, saved, snap, notified>>]_vars

\* An update for an addon file that was rejected by the scan was answered with
\* the not-found error while the other addons were registered.
C18_Witness ==
    \E p \in Requests :
        /\ reply[p] = NotFound("broken")
        /\ MapGet(entries, "datetime") # 0
        /\ MapGet(entries, "restart") # 0

\* C19: after a scan the config the registry holds for an addon, as
\* getAddonConfigs returns it, has for the declared setting `enabled` the value
\* in the config file if there is one and the declared default otherwise.
C19_EffectiveConfig ==
    (Quiet /\ ~LastScanFailed) =>
        \A a \in DOMAIN GetAddonConfigs :
            GetAddonConfigs[a].config =
                IF saved[a] # "none" THEN saved[a] ELSE DeclaredDefault(a)

\* C8: announcement upsert is idempotent: after an announcement of another
\* instance is processed the registry holds exactly one record whose id is the
\* derived <ip>:<port>, no id is ever held by two records, and processing the
\* same announcement again leaves the registry as the first processing did.
C8_UpsertIdempotent ==
    /\ \A id \in AllIds : Cardinality(WithId(peers, id)) <= 1
    /\ lastOp.op = "announce" =>
          /\ Cardinality(WithId(peers, lastOp.id)) = 1
          /\ \A k \in WithId(peers, lastOp.id) : PeerId(peers[k].ip, peers[k].port) = lastOp.id
    /\ \A m \in Announcements :
          Len(peers) < MaxPeers =>
              LET once == Upsert(peers, m.name, m.port, m.addr, now)
              IN  /\ Upsert(once, m.name, m.port, m.addr, now) = once
                  /\ Cardinality(WithId(once, PeerId(PeerIp(m.addr, m.port), m.port))) = 1

\* C8 witness: an announcement was processed for an id that already had a
\* discovered record, next to another record.
C8_Witness ==
    /\ lastOp.op = "announce"
    /\ lastOp.existed
    /\ Len(peers) = 2
    /\ \E k \in WithId(peers, lastOp.id) : ~peers[k].manual /\ peers[k].lastSeen = now

\* A step of the sweep timer.
SweepStep == lastOp'.op = "sweep" /\ ops' = ops + 1

\* C9: a discovered peer whose last announcement is at least the staleness
\* window (30 s) old is removed by the next sweep, whatever its online flag and
\* whatever a liveness check has found since.
C9_StaleSwept ==
    [][SweepStep =>
         \A k \in DOMAIN peers :
             (/\ ~peers[k].manual
              /\ heard[peers[k].id] # Undef
              /\ now - heard[peers[k].id] >= StaleMs)
                 => WithId(peers', peers[k].id) = {}]_vars

\* C9 witness: the sweep removed a discovered peer that a liveness check had
\* found online after its last announcement.
C9_Witness ==
    /\ lastOp.op = "sweep"
    /\ \E r \in swept : /\ ~r.manual
                         /\ r.online
                         /\ r.lastChecked # Undef
                         /\ r.lastChecked > r.lastSeen

\* C10: a manual peer is never removed by the sweep, however much time has
\* passed: a manual record leaves the registry only by an explicit remove of
\* its id.
C10_ManualNeverSwept ==
    [][\A k \in DOMAIN peers :
          peers[k].manual =>
              \/ \E j \in WithId(peers', peers[k].id) : peers'[j].manual
              \/ lastOp'.op = "remove" /\ lastOp'.id = peers[k].id /\ ops' = ops + 1]_vars

\* C10 witness: a sweep has run after the staleness window with a manual peer
\* registered that has no lastSeen and that replaced a discovered record.
C10_Witness ==
    /\ lastOp.op = "sweep"
    /\ now >= StaleMs
    /\ \E k \in DOMAIN peers : /\ peers[k].manual
                               /\ peers[k].lastSeen = Undef
                               /\ peers[k].id \in manualReplaced

\* -------------------------------------------------------- fan-out claims
\* Nothing has changed the selection or a peer record since the operation began.
Undisturbed == toggles = 0 /\ ops = 0

\* C4: a fan-out issues its requests in parallel: while the request to one
\* target is awaited, the request to every other eligible target has been
\* started too (client: the selected devices that are 'current' or online;
\* server: the peers whose record is online), so no target waits for the
\* outcome of another.
C4_RequestsInParallel ==
    /\ (fpc = "await" /\ Undisturbed) =>
          \A t \in T0 : Eligible(t) => t \in issued
    /\ (spc = "post" /\ Undisturbed) =>
          \A k \in DOMAIN peers : peers[k].online => peers[k].id \in sissued

\* C5: every fan-out terminates: a fan-out that awaits the request to a target
\* eventually shows its final message, even when the target accepts the
\* connection and never responds.
C5_FanoutTerminates == (fpc = "await") ~> (fpc = "done")

\* The per-target entries of the outcome: the loop shows one message with the
\* two counters, and names a device only in the console.error line of a
\* request that threw.
Entries == {[target |-> t, success |-> FALSE] : t \in errlog}

\* C6: when a fan-out over the target set T completes, every target is
\* accounted for exactly once: successCount + failCount = |T|, successCount is
\* the number of targets answered with a 2xx response, every other target is
\* counted in failCount, and the outcome carries exactly one entry per target
\* with the matching success flag.
C6_EveryTargetAccounted ==
    fpc = "done" =>
        /\ successCount + failCount = Cardinality(T0)
        /\ successCount = Cardinality(okAnswered)
        /\ \A t \in T0 : counted[t] = 1
        /\ \A t \in T0 :
              {e \in Entries : e.target = t} = {[target |-> t, success |-> t \in okAnswered]}

\* C7: no request is ever issued to a target whose peer record has
\* online = false, by the client loops and by the server-side distribution, and
\* the client counts every target it did not contact as a failure.
C7_OfflineNeverContacted ==
    /\ cOfflineIssued = {}
    /\ sOfflineIssued = {}
    /\ (fpc = "done" /\ toggles = 0) =>
          \A t \in T0 \ issued : counted[t] = 1 /\ t \notin okAnswered

\* --------------------------------------------------- registry claims (2)
\* The peer set of an array of records.
PeerSet(ps) == {ps[k] : k \in DOMAIN ps}

\* C11 (as stated): for every registry state S and every ip, name and port,
\* POST /api/peers/add followed by DELETE /api/peers/<ip>:<port> leaves the
\* peer set equal to S.
C11_RoundTripAny ==
    roundTrip.stage = "removed" => PeerSet(peers) = PeerSet(roundTrip.pre)

\* C11 (amended): when S holds no record with the id <ip>:<port>, the add
\* followed by the remove of that id leaves the peer set (and the order of the
\* array) equal to S; when S holds one, the round trip removes it.
C11_RoundTripFresh ==
    roundTrip.stage = "removed" =>
        IF WithId(roundTrip.pre, roundTrip.id) = {}
        THEN peers = roundTrip.pre
        ELSE PeerSet(peers) = PeerSet(roundTrip.pre) \ {roundTrip.pre[k] : k \in WithId(roundTrip.pre, roundTrip.id)}

\* C11 witness: an add of a new id next to another record, then its remove.
C11_Witness ==
    /\ roundTrip.stage = "removed"
    /\ WithId(roundTrip.pre, roundTrip.id) = {}
    /\ Len(roundTrip.pre) = 1
    /\ lastOp.op = "remove"
    /\ lastOp.existed

\* C12: with the default timing (announce every 5 s, sweep every 10 s,
\* staleness window 30 s) a discovered peer that keeps announcing and loses at
\* most two consecutive announcements is never removed by the sweep: once one
\* of its announcements has been processed its record stays in the registry.
C12_LivePeerKept ==
    seen => /\ Cardinality(WithId(peers, RemoteId)) = 1
            /\ \A k \in WithId(peers, RemoteId) : now - peers[k].lastSeen <= (MaxLost + 1) * AnnounceMs

\* C12 witness: a sweep has just run past the staleness window while the last
\* two announcements of the peer were lost, and the peer is registered.
C12_Witness ==
    /\ seen
    /\ lostRun = 2
    /\ sweepDone
    /\ annDone
    /\ now >= StaleMs
    /\ WithId(peers, RemoteId) # {}


\* The number of times a device was added to one of the two counters.
Visits == counted[Current] + counted[PeerA] + counted[PeerB]

\* C20 as stated: a fan-out ends with its report whatever its targets did, every
\* failed target being in failCount, and the only call that is rejected is one
\* with an empty target set, for which no request is issued.
C20_OnlyEmptyRejected ==
    /\ fpc = "done" =>
          /\ successCount + failCount = Visits
          /\ successCount > 0 => report \in {"success", "partial"}
          /\ failCount > 0 => report \in {"partial", "failed"}
          /\ (issued \ okAnswered # {}) => failCount > 0
    /\ report = "rejected" => (T0 = {} /\ issued = {})

\* C20, amended: a fan-out ends with its report whatever its targets did, every
\* failed target being in failCount; a call is rejected, and then issues no
\* request, when the selection is empty and no device is being edited or when
\* uploadUpdate is called without a file; a save for the device being edited
\* ends with its own success or failure message.
C20_PartialFailureTolerated ==
    /\ fpc = "done" =>
          /\ successCount + failCount = Visits
          /\ successCount > 0 => report \in {"success", "partial"}
          /\ failCount > 0 => report \in {"partial", "failed"}
          /\ (issued \ okAnswered # {}) => failCount > 0
    /\ fpc = "edit_done" => report \in {"success", "failed"}
    /\ report = "rejected" => (issued = {} /\ (T0 = {} \/ fop = "uploadUpdate"))
    /\ (T0 = {} /\ fop # "none" /\ fpc \notin {"edit_await", "edit_done"}) =>
          (report = "rejected" /\ issued = {})

\* A fan-out ended with some targets served and others failed: one request
\* was rejected or answered outside 2xx, one selected device was skipped.
C20_Witness ==
    /\ fpc = "done" /\ report = "partial"
    /\ issued \ okAnswered # {}
    /\ T0 \ issued # {}


\* The fan-out loop has started a request for device d.
LoopIssued(d) == d \in issued /\ fpc \notin {"edit_await", "edit_done"}

\* C21: in a fan-out 'current' is never skipped: it is counted only through a
\* request, a loop that ran undisturbed over a selection holding it has sent
\* that request whatever the peers array holds, and the request goes to the
\* local endpoint; the request for any other device goes to
\* http://<ip>:<port><endpoint> of the record of the peers array with that id.
C21_TargetResolution ==
    /\ counted[Current] > 0 => Current \in issued
    /\ (fpc = "done" /\ toggles = 0 /\ Current \in T0) => Current \in issued
    /\ LoopIssued(Current) => url[Current] = LocalUrl
    /\ \A d \in PeerTargets :
          LoopIssued(d) => /\ caddr[d] # NoDevice
                           /\ url[d] = Http(caddr[d][1], caddr[d][2])
                           /\ url[d] = Http(d[1], d[2])

\* A loop has ended that requested 'current' at the local endpoint while a
\* selected peer was offline, and requested a peer at its own address.
C21_Witness ==
    /\ fpc = "done"
    /\ url[Current] = LocalUrl
    /\ url[PeerA] = Http("10.0.0.5", 3001)
    /\ PeerB \in T0 /\ cpeers[PeerB] = "offline" /\ url[PeerB] = NoUrl


\* ------------------------------------------------------ discovery claims
\* C22: once the discovery service has been stopped (before-quit) the socket
\* is closed, no further announcement is sent and no further sweep removes a
\* record from the registry.
C22_StopSilencesDiscovery ==
    quit => /\ sock = "closed"
            /\ lastOp.op # "sent"
            /\ ~(lastOp.op = "sweep" /\ swept # {})


\* The ids of the manual records of a registry.
ManualIds(ps) == {ps[k].id : k \in {j \in DOMAIN ps : ps[j].manual}}

\* C23: a socket 'error' event (EADDRINUSE of the bind, or a later one) leaves
\* the host running and both interval timers armed, and from a failed bind on
\* no step takes a manual peer out of the registry.
C23_SocketErrorTolerated ==
    /\ []((sock = "failed" \/ lastOp.op = "error") => (up /\ armed = DiscoveryTimers))
    /\ [][sock = "failed" => ManualIds(peers) \subseteq ManualIds(peers')]_vars

\* The bind has failed, a manual peer was added afterwards or before, and the
\* sweep timer has just fired past the staleness window with the peer kept.
C23_Witness ==
    /\ sock = "failed"
    /\ up
    /\ lastOp.op = "sweep"
    /\ now >= StaleMs
    /\ ManualIds(peers) # {}


\* The datagrams the listener has to drop: not JSON, no type or another type
\* than 'announce', or an announce carrying the local display name as id.
Dropped == {m \in Datagrams : ~m.json \/ m.type # "announce" \/ m.id = DisplayName}

\* C24: the handling of a datagram that is not JSON, has no type or another
\* type than 'announce', or announces the local display name leaves the
\* registry as it was, and leaves the socket bound and the host running, so
\* that later datagrams are handled.
C24_DroppedDatagramIsInert ==
    [][\A m \in Dropped :
          Datagram(m.json, m.type, m.id, m.name, m.port, m.addr)
              => (peers' = peers /\ sock' = "bound" /\ up')]_vars

\* A datagram was dropped while the registry held a peer, and the registry
\* has room for the peer of a later announcement.
C24_Witness ==
    /\ lastOp.op = "ignored"
    /\ Len(peers) = 1
    /\ ops < MaxOps
    /\ sock = "bound" /\ up


\* C25: the peers written to the config file are the manual peers of the
\* registry and no discovered one, so that the registry a restart loads
\* holds manual peers only.
C25_OnlyManualPersisted ==
    /\ \A k \in DOMAIN disk : disk[k].manual
    /\ up => ManualIds(peers) \subseteq ManualIds(disk)
    /\ lastOp.op = "restart" => \A k \in DOMAIN peers : peers[k].manual


\* C26: every record's id is the <ip>:<port> of its own ip and port fields
\* and no two records share an id, in every state; and an announcement, a
\* liveness check or an explicit add leaves every record in its place with
\* the id it had.
C26_IdDerivedAndStable ==
    /\ [](/\ \A k \in DOMAIN peers : peers[k].id = PeerId(peers[k].ip, peers[k].port)
          /\ \A j, k \in DOMAIN peers : peers[j].id = peers[k].id => j = k)
    /\ [][(lastOp'.op \in {"announce", "check", "add"} /\ ops' = ops + 1) =>
             \A k \in DOMAIN peers :
                 k \in DOMAIN peers' /\ peers'[k].id = peers[k].id]_vars

\* An announcement from the loopback address was processed for an id that
\* was registered, next to another record.
C26_Witness ==
    /\ lastOp.op = "announce"
    /\ lastOp.existed
    /\ lastOp.id[1] \in {"localhost", "10.0.0.9"}
    /\ Len(peers) = 2


\* ------------------------------------------------- addon claims (2)
\* C27: no addon's config holds a password key, in the registry and the
\* in-memory configuration, in what a pending save has serialised, or in the
\* config file, although every update body carries the admin password.
C27_NoCredentialStored ==
    /\ cfgPw = {}
    /\ \A p \in Handlers : snapPw[p] = {}
    /\ savedPw = {}

\* Two updates of the same addon, whose bodies carried the password, have
\* been served and saved.
C27_Witness ==
    /\ BodyPassword
    /\ \A p \in Requests : kind[p] = "update" /\ pc[p] = "done" /\ reply[p] = Success
    /\ saved["datetime"] \in {"true", "false"}


\* C28: every step that runs a stop loop (the stop phase of the reload route,
\* before-quit) invokes stop() on every enabled instance the registry held
\* when the loop began, whichever of them throw, and passes no error on to
\* its caller.
C28_StopIsBestEffort ==
    [][stopRun'.who # "none" =>
          /\ stopRun'.invoked = {o \in Registered(entries) : objEnabled[o]}
          /\ ~stopRun'.raised]_vars

\* Before-quit met a throwing stop() and still stopped another instance.
C28_Witness ==
    /\ stopRun.who = "quit"
    /\ stopRun.threw # {}
    /\ stopRun.invoked \ stopRun.threw # {}


\* The last operation was a removal or a check of an id no record had.
UnknownPeerOp == lastOp.op \in {"remove", "check"} /\ ~lastOp.existed

\* What the remove and check routes answer for an id a record has.
KnownPeerOutcomes ==
    {RemoveResponse(TRUE)} \cup {CheckResponse(TRUE, b) : b \in BOOLEAN}

\* C29: when a removal or a check named an id no record had, the route
\* answered with a rejection, NotFound, that is none of the answers a known
\* id gets.
C29_UnknownPeerRejected ==
    UnknownPeerOp => (routeRes[1] = "NotFound" /\ routeRes \notin KnownPeerOutcomes)


\* C30: a step of updateAddonConfig that invokes hooks on an instance invokes
\* stop first, updateConfig second and, exactly when the addon is enabled
\* after the update, init third and last, whether or not stop threw; the
\* handler then waits for that init, or goes on to save.
C30_StopThenUpdateThenInit ==
    [][order'.seq # <<>> =>
          /\ order'.seq = IF objEnabled'[order'.obj]
                          THEN <<"stop", "updateConfig", "init">>
                          ELSE <<"stop", "updateConfig">>
          /\ \E p \in Requests :
                /\ pc[p] = "idle"
                /\ pobj'[p] = order'.obj
                /\ pc'[p] = IF objEnabled'[order'.obj] THEN "u_init" ELSE "u_save"]_vars

\* An update whose stop() threw went on to updateConfig() and init().
C30_Witness ==
    /\ order.threw
    /\ order.seq = <<"stop", "updateConfig", "init">>
    /\ \E p \in Requests : pc[p] = "u_init" /\ pobj[p] = order.obj


\* ------------------------------------------------- addon claims (3)
\* The reload route has stopped and cleared the registry for handler p and
\* its loadAddons() has not returned.
Reloading(p) == kind[p] = "reload" /\ pc[p] \in {"l_readdir", "l_init"}

\* The addon ids the registry held when the reload of handler p began, and
\* the ids a complete scan registers.
OldIds(p) == {objAddon[o] : o \in preReload[p]}
NewIds == {a \in AddonIds : ~LacksField(a)}

\* C31: while a reload is in progress, the ids getAddonConfigs() returns
\* (those an updateAddonConfig call finds) are the complete set the registry
\* held before the reload or the complete set the scan registers, never an
\* empty or partly loaded registry in between.
C31_ReloadAtomicForObservers ==
    \A p \in Requests :
        Reloading(p) =>
            (DOMAIN GetAddonConfigs = OldIds(p) \/ DOMAIN GetAddonConfigs = NewIds)


\* C32: an updateAddonConfig call for a registered addon is a merge with a
\* bounded effect: a body without the `enabled` key leaves that key of the
\* addon's config as it was, a body with it sets it, the config file entry
\* becomes the registry's config, and the config, the enabled flag and the
\* config file entry of every other addon stay as they were.
C32_MergeHasBoundedEffect ==
    [][\A p \in Requests, a \in AddonIds :
          (UpdateServed(p, a) /\ ~Unregistered(a)) =>
              LET o == MapGet(entries, a)
                  e == req'[p].e
              IN  /\ objCfg'[o] = IF e = "keep" THEN objCfg[o] ELSE e
                  /\ cfgAddons'[a] = objCfg'[o]
                  /\ \A b \in AddonIds \ {a} : cfgAddons'[b] = cfgAddons[b]
                  /\ \A x \in ObjIds \ {o} :
                        objCfg'[x] = objCfg[x] /\ objEnabled'[x] = objEnabled[x]]_vars

\* An update without the `enabled` key was served for an addon whose config
\* holds enabled = false, next to another registered addon with a config
\* file entry of its own.
C32_Witness ==
    \E p \in Requests :
        /\ pc[p] = "u_save" /\ req[p].e = "keep" /\ req[p].id = "datetime"
        /\ objCfg[pobj[p]] = "false"
        /\ MapGet(entries, "restart") # 0
        /\ cfgAddons["restart"] = "true"


\* ------------------------------------------------- registry claims (3)
\* The ids the registry holds.
IdsOf(ps) == {ps[k].id : k \in DOMAIN ps}

\* The last step was a registry operation of this kind.
Did(kinds) == lastOp'.op \in kinds /\ ops' = ops + 1

\* C33: under every interleaving of announcements, the sweep, probes in
\* flight, adds and removals, a step puts an id into the registry only when it
\* is the announcement or the add of that id (and then it is there), takes an
\* id out only when it is the removal of that id (and then it is gone) or the
\* sweep dropping a stale discovered record, and a probe that settles after
\* its record was removed or replaced leaves the registry as the other
\* writers left it.
C33_WritesNotLost ==
    [][/\ IdsOf(peers') \ IdsOf(peers) \subseteq
              (IF Did({"announce", "add"}) THEN {lastOp'.id} ELSE {})
       /\ IdsOf(peers) \ IdsOf(peers') \subseteq
              (IF Did({"remove"}) THEN {lastOp'.id}
               ELSE IF Did({"sweep"})
                    THEN {peers[k].id : k \in {j \in DOMAIN peers : ~Keep(peers[j], now)}}
                    ELSE {})
       /\ Did({"announce", "add"}) => lastOp'.id \in IdsOf(peers')
       /\ Did({"remove"}) => lastOp'.id \notin IdsOf(peers')
       /\ (Did({"poll"}) /\ ~lastOp'.existed) => peers' = peers]_vars

\* A probe of a discovered record settled after an add had replaced that
\* record: the manual record is in the registry as the add wrote it.
C33_Witness ==
    /\ lastOp.op = "poll" /\ ~lastOp.existed
    /\ \E k \in DOMAIN peers :
          /\ peers[k].id = lastOp.id
          /\ peers[k].manual /\ ~peers[k].online /\ peers[k].lastChecked = 0

\* C34: a probe that settles after its record was removed (by the removal
\* route or by the sweep) writes nothing into the registry, and while such a
\* probe is in flight the id comes back only by an announcement or an add of
\* that id.
C34_RemovedStaysRemoved ==
    [][\A f \in inflight :
          (~f.attached /\ f.id \notin IdsOf(peers)) =>
              /\ f.id \in IdsOf(peers') =>
                    (Did({"announce", "add"}) /\ lastOp'.id = f.id)
              /\ (f \notin inflight' /\ Did({"poll"})) => peers' = peers]_vars

\* A probe settled whose record had been taken out of the registry while it
\* was in flight: the id is not in the registry.
C34_Witness ==
    /\ lastOp.op = "poll" /\ ~lastOp.existed
    /\ lastOp.id \notin IdsOf(peers)


\* C35: no step turns the manual flag of a record that stays in the registry
\* from true to false, and the announcement of a manual peer's id sets its
\* lastSeen and online fields and leaves it manual.
C35_ManualIsSticky ==
    [][/\ \A j \in DOMAIN peers, k \in DOMAIN peers' :
             (peers[j].manual /\ peers'[k].id = peers[j].id) => peers'[k].manual
       /\ \A j \in DOMAIN peers :
             (Did({"announce"}) /\ lastOp'.id = peers[j].id /\ peers[j].manual) =>
                 /\ j \in DOMAIN peers'
                 /\ peers'[j].manual /\ peers'[j].online /\ peers'[j].lastSeen = now
                 /\ Keep(peers'[j], now + StaleMs)]_vars

\* A manual peer was announced: its record carries the announced name, is
\* online and is still manual.
C35_Witness ==
    /\ lastOp.op = "announce" /\ lastOp.existed
    /\ \E k \in DOMAIN peers :
          /\ peers[k].id = lastOp.id
          /\ peers[k].manual /\ peers[k].online /\ peers[k].name = "A"


\* ------------------------------------------------- addon claims (4)
\* The `enabled` key of an addon's entry in a config.addons value ("none": no
\* entry, "unset": an entry without the key).
KeyOf(c) == IF c = "none" THEN "unset" ELSE c

\* C36: when every updateAddonConfig call has finished, the config file holds
\* for every registered addon the config the registry holds, and every call
\* that was served for a registered addon has broadcast an addons-update.
C36_PersistedEqualsRegistry ==
    (\A p \in Handlers : pc[p] \in {"idle", "done"}) =>
        /\ \A a \in DOMAIN GetAddonConfigs :
              (\E p \in Requests : kind[p] = "update" /\ reply[p] = Success) =>
                  KeyOf(saved[a]) = GetAddonConfigs[a].config
        /\ notified >= Cardinality({p \in Requests : kind[p] = "update" /\ reply[p] = Success})

\* --------------------------------------------------------- network claims
\* C37: distribution makes at most one hop.  Every POST to a receive endpoint
\* is started by the instance the item was uploaded to, once per destination,
\* and only that instance runs a distribution loop for the item: an instance
\* that received an item through a receive endpoint sends it to no one, so the
\* number of POSTs is at most one per upload and other instance.
C37_AtMostOneHop ==
    /\ \A m \in BagToSet(hsends) :
          /\ m.from = m.item.origin
          /\ CopiesIn(m, hsends) = 1
    /\ \A i \in HopInstances : hdist[i] # NoDist => hdist[i].item.origin = i
    /\ BagCardinality(hsends) <= huploads * (Cardinality(HopInstances) - 1)

\* C37 witness: an item uploaded to i for all peers has been received and
\* stored by every other instance, one of which is running and lists i as an
\* online peer, and no POST or distribution loop is left.
C37_Witness ==
    \E i \in HopInstances : \E item \in hheld[i] :
        /\ item.origin = i
        /\ \A j \in HopInstances : item \in hheld[j]
        /\ \E j \in HopInstances \ (hdown \cup {i}) : i \in honline[j]
        /\ hwire = {}
        /\ \A k \in HopInstances : hdist[k] = NoDist
\* ------------------------------------------------- scheduled-restart claims
\* C38: once stop() has completed on a scheduled-restart instance, the
\* instance issues no PC restart command: no instance runs the restart command
\* while its schedule is stopped.
C38_NoRestartAfterStop ==
    \A o \in ObjIds : restartCmd[o] # "stopped"

\* C39: on every scheduled-restart instance at most one restart timer, one
\* warning timer and one interval of each kind is pending, the one its field
\* holds: no timer of a previous schedule runs on after a schedule was started
\* or stopped.  A pending warning timer and a running warning interval never
\* coexist, the interval being started by the warning timer of the same
\* schedule.  (The timeout of a restart whose deadline was reached is not a
\* timer of the schedule; C38 is about it.)
C39_OneTimerOfEachKind ==
    \A o \in ObjIds :
        /\ \A f \in TimerFields : Lost(f) \notin timers[o]
        /\ ~({"warningTimer", "warningUpdateInterval"} \subseteq timers[o])

\* C39 witness: updateAddonConfig has just reconfigured a running
\* scheduled-restart instance (stop, updateConfig and, when enabled, init), and
\* the schedule updateConfig started is the only one pending.
C39_Witness ==
    /\ order # NoOrder
    /\ objAddon[order.obj] = "restart"
    /\ Ran(order.seq, "updateConfig")
    /\ \E p \in Requests : req[p].id = "restart" /\ req[p].running /\ pc[p] \in {"u_init", "u_save"}
    /\ timers[order.obj] = Armed
====
